---- MODULE Spec2Model ----
(***************************************************************************)
(* A model of the saju (Four Pillars) calculation engine,                  *)
(* src/sajuengine/engine.py together with src/sajuengine/models.py.        *)
(*                                                                         *)
(* Notation.  The engine's strings are Chinese characters and Korean       *)
(* words; they are written here in Latin letters:                          *)
(*   stems     Jia Yi Bing Ding Wu Ji Geng Xin Ren Gui (capitalised)       *)
(*   branches  zi chou yin mao chen si wu wei shen you xu hai              *)
(*   elements  wood fire earth metal water                                 *)
(*   polarity  yang yin                                                    *)
(*   roles     bongi (primary), junggi (secondary), yeogi (residual)       *)
(* Python's None is the empty sequence and a present optional value v is   *)
(* <<v>>.  Hidden-stem weights and element counts are kept in hundredths,  *)
(* so that 1.0, 0.7 and 0.3 are the integers 100, 70 and 30.               *)
(***************************************************************************)
EXTENDS Integers, Sequences, FiniteSets, TLC

VARIABLES
    inp,        \* the BirthInput in hand
    pc,         \* "form": the input is submitted; "rejected": validate_input
                \* returned errors; "input": the input is taken, nothing is
                \* computed; "pillars": calculate_pillars has returned;
                \* "done": the analyses of the chart have returned;
                \* "luck": calculate_luck_cycles, called on its own, has
                \* returned;
                \* "error": generate_full_analysis raised ValueError;
                \* "crashed": validate_input raised OverflowError;
                \* "relations": the ten-god statistics and the interactions
                \* alone were computed
    pillars,    \* the Pillars calculate_pillars returned
    report,     \* the analyses of the chart, as generate_full_analysis keeps them
    prev,       \* the input and the result of the preceding call, when a
                \* function has been called twice
    today,      \* date.today(), <<year, month, day>>
    errors      \* the list validate_input returned

vars == <<inp, pc, pillars, report, prev, today, errors>>

None == << >>
Some(v) == <<v>>
Val(o) == o[1]

(***************************************************************************)
(* Lookup tables (sajuengine/data.py).                                     *)
(***************************************************************************)
STEMS == <<"Jia", "Yi", "Bing", "Ding", "Wu", "Ji", "Geng", "Xin", "Ren", "Gui">>

BRANCHES ==
    <<"zi", "chou", "yin", "mao", "chen", "si", "wu", "wei", "shen", "you", "xu", "hai">>

ELEMENTS == <<"wood", "fire", "earth", "metal", "water">>

\* list.index of Python: the 0-based position of x in seq
IndexOf(seq, x) == (CHOOSE i \in 1..Len(seq) : seq[i] = x) - 1

\* seq[i] of Python, 0-based
At(seq, i) == seq[i + 1]

STEM_INFO(stem) ==
    LET i == IndexOf(STEMS, stem)
    IN  [element |-> At(ELEMENTS, i \div 2),
         yinyang |-> IF i % 2 = 0 THEN "yang" ELSE "yin"]

BRANCH_INFO(branch) ==
    LET i == IndexOf(BRANCHES, branch)
    IN  [element |-> CASE branch \in {"yin", "mao"} -> "wood"
                       [] branch \in {"si", "wu"} -> "fire"
                       [] branch \in {"shen", "you"} -> "metal"
                       [] branch \in {"hai", "zi"} -> "water"
                       [] OTHER -> "earth",
         yinyang |-> IF i % 2 = 0 THEN "yang" ELSE "yin"]

\* branch -> the list of (hidden stem, weight in hundredths), primary first
HIDDEN_STEMS(branch) ==
    CASE branch = "zi"   -> << <<"Gui", 100>>, <<"Ren", 30>> >>
      [] branch = "chou" -> << <<"Ji", 100>>, <<"Xin", 70>>, <<"Gui", 30>> >>
      [] branch = "yin"  -> << <<"Jia", 100>>, <<"Bing", 70>>, <<"Wu", 30>> >>
      [] branch = "mao"  -> << <<"Yi", 100>>, <<"Jia", 30>> >>
      [] branch = "chen" -> << <<"Wu", 100>>, <<"Gui", 70>>, <<"Yi", 30>> >>
      [] branch = "si"   -> << <<"Bing", 100>>, <<"Geng", 70>>, <<"Wu", 30>> >>
      [] branch = "wu"   -> << <<"Ding", 100>>, <<"Ji", 70>>, <<"Bing", 30>> >>
      [] branch = "wei"  -> << <<"Ji", 100>>, <<"Yi", 70>>, <<"Ding", 30>> >>
      [] branch = "shen" -> << <<"Geng", 100>>, <<"Ren", 70>>, <<"Wu", 30>> >>
      [] branch = "you"  -> << <<"Xin", 100>>, <<"Geng", 30>> >>
      [] branch = "xu"   -> << <<"Wu", 100>>, <<"Ding", 70>>, <<"Xin", 30>> >>
      [] branch = "hai"  -> << <<"Ren", 100>>, <<"Jia", 70>>, <<"Wu", 30>> >>

\* the element that generates the given one in the generative cycle
\* wood -> fire -> earth -> metal -> water -> wood
ELEMENT_GENERATED_BY(el) == At(ELEMENTS, (IndexOf(ELEMENTS, el) + 4) % 5)

\* (month, day, idx) of the twelve fixed solar-term boundaries, one a month;
\* idx is the month offset from the yin month (0 = yin, ..., 11 = chou)
SOLAR_TERM_BOUNDARIES ==
    << [m |-> 1,  d |-> 6, idx |-> 11],
       [m |-> 2,  d |-> 4, idx |-> 0],
       [m |-> 3,  d |-> 6, idx |-> 1],
       [m |-> 4,  d |-> 5, idx |-> 2],
       [m |-> 5,  d |-> 6, idx |-> 3],
       [m |-> 6,  d |-> 6, idx |-> 4],
       [m |-> 7,  d |-> 7, idx |-> 5],
       [m |-> 8,  d |-> 8, idx |-> 6],
       [m |-> 9,  d |-> 8, idx |-> 7],
       [m |-> 10, d |-> 8, idx |-> 8],
       [m |-> 11, d |-> 7, idx |-> 9],
       [m |-> 12, d |-> 7, idx |-> 10] >>

\* year stem -> the stem of the first (yin) month of that year
MONTH_STEM_START(year_stem) ==
    At(STEMS, (2 * (IndexOf(STEMS, year_stem) % 5) + 2) % 10)

\* day stem -> the stem of the first (zi) hour of that day
HOUR_STEM_START(day_stem) ==
    At(STEMS, (2 * (IndexOf(STEMS, day_stem) % 5)) % 10)

\* hour 0..23 -> two-hour slot; 23:00-00:59 is slot 0.  None outside 0..23.
get_hour_branch_index(hour) ==
    IF hour \in 0..23 THEN Some(((hour + 1) \div 2) % 12) ELSE None

\* the relational label of target_stem relative to day_stem
get_ten_god(day_stem, target_stem) ==
    LET de == IndexOf(ELEMENTS, STEM_INFO(day_stem).element)
        te == IndexOf(ELEMENTS, STEM_INFO(target_stem).element)
        same == STEM_INFO(day_stem).yinyang = STEM_INFO(target_stem).yinyang
        rel == (te - de + 5) % 5
    IN  CASE rel = 0 -> IF same THEN "bigyeon" ELSE "geopjae"
          [] rel = 1 -> IF same THEN "siksin" ELSE "sanggwan"
          [] rel = 2 -> IF same THEN "pyeonjae" ELSE "jeongjae"
          [] rel = 3 -> IF same THEN "pyeongwan" ELSE "jeonggwan"
          [] rel = 4 -> IF same THEN "pyeonin" ELSE "jeongin"

TWELVE_STAGES ==
    <<"jangsaeng", "mogyok", "gwandae", "geonrok", "jewang", "soe",
      "byeong", "sa", "myo", "jeol", "tae", "yang">>

\* the life stage of branch relative to day_stem: yang stems run forward from
\* their birth branch, yin stems backward
get_twelve_stage(day_stem, branch) ==
    LET si == IndexOf(STEMS, day_stem)
        bi == IndexOf(BRANCHES, branch)
        start == CASE day_stem = "Jia" -> 11
                   [] day_stem \in {"Bing", "Wu"} -> 2
                   [] day_stem = "Geng" -> 5
                   [] day_stem = "Ren" -> 8
                   [] day_stem = "Yi" -> 6
                   [] day_stem \in {"Ding", "Ji"} -> 9
                   [] day_stem = "Xin" -> 0
                   [] day_stem = "Gui" -> 3
    IN  IF si % 2 = 0
        THEN At(TWELVE_STAGES, (bi - start + 12) % 12)
        ELSE At(TWELVE_STAGES, (start - bi + 12) % 12)

(***************************************************************************)
(* Calendar and solar terms (engine.py, H-02/H-03).                        *)
(***************************************************************************)
IsLeapYear(y) == (y % 4 = 0 /\ y % 100 # 0) \/ y % 400 = 0

DaysInMonth(y, m) ==
    IF m = 2 THEN (IF IsLeapYear(y) THEN 29 ELSE 28)
    ELSE IF m \in {4, 6, 9, 11} THEN 30 ELSE 31

\* datetime.date(y, m, d) succeeds
IsValidDate(y, m, d) == m \in 1..12 /\ d >= 1 /\ d <= DaysInMonth(y, m)

\* compute_jdn without the century terms (the Julian calendar's count)
compute_jdn_julian(year, month, day) ==
    LET a == (14 - month) \div 12
        y == year + 4800 - a
        m == month + 12 * a - 3
    IN  day + (153 * m + 2) \div 5 + 365 * y + y \div 4 - 32045

\* compute_jdn without the leap day of the years divisible by 400
compute_jdn_no_400(year, month, day) ==
    LET a == (14 - month) \div 12
        y == year + 4800 - a
        m == month + 12 * a - 3
    IN  day + (153 * m + 2) \div 5 + 365 * y + y \div 4 - y \div 100 - 32045

compute_jdn(year, month, day) ==
    LET a == (14 - month) \div 12
        y == year + 4800 - a
        m == month + 12 * a - 3
    IN  day + (153 * m + 2) \div 5 + 365 * y + y \div 4 - y \div 100 + y \div 400 - 32045

jdn_to_day_stem_branch(jdn) ==
    LET stem_idx == (jdn + 7) % 10
        branch_idx == (jdn + 5) % 12
    IN  <<At(STEMS, stem_idx), At(BRANCHES, branch_idx)>>

\* sorted(boundaries, key = (month, day)): insertion of t into a sorted list
RECURSIVE InsertTerm(_, _)
InsertTerm(t, sorted) ==
    IF sorted = << >> THEN <<t>>
    ELSE IF t.m < Head(sorted).m \/ (t.m = Head(sorted).m /\ t.d < Head(sorted).d)
         THEN <<t>> \o sorted
         ELSE <<Head(sorted)>> \o InsertTerm(t, Tail(sorted))

RECURSIVE SortTerms(_)
SortTerms(terms) ==
    IF terms = << >> THEN << >>
    ELSE InsertTerm(terms[Len(terms)], SortTerms(SubSeq(terms, 1, Len(terms) - 1)))

sorted_terms == SortTerms(SOLAR_TERM_BOUNDARIES)

\* the loop of get_solar_term_month from position i on, cur being
\* current_month_idx
RECURSIVE ScanTerms(_, _, _, _)
ScanTerms(i, month, day, cur) ==
    IF i > Len(sorted_terms) THEN cur
    ELSE LET t == sorted_terms[i]
         IN  ScanTerms(i + 1, month, day,
                       IF month > t.m \/ (month = t.m /\ day >= t.d)
                       THEN t.idx ELSE cur)

get_solar_term_month(year, month, day) == ScanTerms(1, month, day, 11)

\* get_year_for_pillars with 4 February still in the old year
get_year_for_pillars_late(year, month, day) ==
    LET lichun_month == 2
        lichun_day == 4
    IN  IF month < lichun_month \/ (month = lichun_month /\ day <= lichun_day)
        THEN year - 1
        ELSE year

get_year_for_pillars(year, month, day) ==
    LET lichun_month == 2
        lichun_day == 4
    IN  IF month < lichun_month \/ (month = lichun_month /\ day < lichun_day)
        THEN year - 1
        ELSE year

(***************************************************************************)
(* The four pillars (engine.py, A-01).                                     *)
(***************************************************************************)
HiddenStemInfo(h) ==
    [stem |-> h[1],
     weight |-> h[2],
     role |-> IF h[2] >= 100 THEN "bongi" ELSE IF h[2] >= 50 THEN "junggi" ELSE "yeogi"]

_build_pillar(stem, branch) ==
    LET si == STEM_INFO(stem)
        bi == BRANCH_INFO(branch)
        hs == HIDDEN_STEMS(branch)
    IN  [stem |-> stem,
         branch |-> branch,
         stem_element |-> si.element,
         branch_element |-> bi.element,
         stem_yinyang |-> si.yinyang,
         branch_yinyang |-> bi.yinyang,
         hidden_stems |-> [k \in 1..Len(hs) |-> HiddenStemInfo(hs[k])],
         ten_god |-> "",
         twelve_stage |-> ""]

\* calculate_year_pillar with the branch counted from the year 3
calculate_year_pillar_from_3(year, month, day) ==
    LET adj_year == get_year_for_pillars(year, month, day)
        stem_idx == (adj_year - 4) % 10
        branch_idx == (adj_year - 3) % 12
    IN  _build_pillar(At(STEMS, stem_idx), At(BRANCHES, branch_idx))

calculate_year_pillar(year, month, day) ==
    LET adj_year == get_year_for_pillars(year, month, day)
        stem_idx == (adj_year - 4) % 10
        branch_idx == (adj_year - 4) % 12
    IN  _build_pillar(At(STEMS, stem_idx), At(BRANCHES, branch_idx))

\* calculate_month_pillar with the year stem of the calendar year
calculate_month_pillar_calendar_year(year, month, day) ==
    LET year_stem == At(STEMS, (year - 4) % 10)
        month_branch_offset == get_solar_term_month(year, month, day)
        branch_idx == (month_branch_offset + 2) % 12
        start_stem_idx == IndexOf(STEMS, MONTH_STEM_START(year_stem))
        stem_idx == (start_stem_idx + month_branch_offset) % 10
    IN  _build_pillar(At(STEMS, stem_idx), At(BRANCHES, branch_idx))

calculate_month_pillar(year, month, day) ==
    LET adj_year == get_year_for_pillars(year, month, day)
        year_stem == At(STEMS, (adj_year - 4) % 10)
        month_branch_offset == get_solar_term_month(year, month, day)
        branch_idx == (month_branch_offset + 2) % 12
        start_stem_idx == IndexOf(STEMS, MONTH_STEM_START(year_stem))
        stem_idx == (start_stem_idx + month_branch_offset) % 10
    IN  _build_pillar(At(STEMS, stem_idx), At(BRANCHES, branch_idx))

calculate_day_pillar(year, month, day) ==
    LET sb == jdn_to_day_stem_branch(compute_jdn(year, month, day))
    IN  _build_pillar(sb[1], sb[2])

\* calculate_hour_pillar counting from the day stem itself
calculate_hour_pillar_no_start(day_stem, hour) ==
    IF hour = None THEN None
    ELSE LET branch_idx == get_hour_branch_index(Val(hour))
         IN  IF branch_idx = None THEN None
             ELSE LET start_stem_idx == IndexOf(STEMS, day_stem)
                      stem_idx == (start_stem_idx + Val(branch_idx)) % 10
                  IN  Some(_build_pillar(At(STEMS, stem_idx),
                                         At(BRANCHES, Val(branch_idx))))

calculate_hour_pillar(day_stem, hour) ==
    IF hour = None THEN None
    ELSE LET branch_idx == get_hour_branch_index(Val(hour))
         IN  IF branch_idx = None THEN None
             ELSE LET start_stem_idx == IndexOf(STEMS, HOUR_STEM_START(day_stem))
                      stem_idx == (start_stem_idx + Val(branch_idx)) % 10
                  IN  Some(_build_pillar(At(STEMS, stem_idx),
                                         At(BRANCHES, Val(branch_idx))))

\* Pillars.all_pillars
all_pillars(ps) ==
    <<ps.year, ps.month, ps.day>> \o (IF ps.hour # None THEN ps.hour ELSE << >>)

_fill_ten_gods(ps) ==
    LET ds == ps.day.stem
    IN  [year |-> [ps.year EXCEPT !.ten_god = get_ten_god(ds, ps.year.stem)],
         month |-> [ps.month EXCEPT !.ten_god = get_ten_god(ds, ps.month.stem)],
         day |-> [ps.day EXCEPT !.ten_god = "ilgan"],
         hour |-> IF ps.hour = None THEN None
                  ELSE Some([Val(ps.hour) EXCEPT
                                !.ten_god = get_ten_god(ds, Val(ps.hour).stem)])]

_fill_twelve_stages(ps) ==
    LET ds == ps.day.stem
        fill(p) == [p EXCEPT !.twelve_stage = get_twelve_stage(ds, p.branch)]
    IN  [year |-> fill(ps.year),
         month |-> fill(ps.month),
         day |-> fill(ps.day),
         hour |-> IF ps.hour = None THEN None ELSE Some(fill(Val(ps.hour)))]

\* calculate_pillars giving 23 o'clock the day pillar of the next day
calculate_pillars_late_hour(i) ==
    LET year_p == calculate_year_pillar(i.year, i.month, i.day)
        month_p == calculate_month_pillar(i.year, i.month, i.day)
        day_p == calculate_day_pillar(i.year, i.month,
                                      IF i.hour = Some(23) THEN i.day + 1 ELSE i.day)
        hour_p == calculate_hour_pillar(day_p.stem, i.hour)
        ps == [year |-> year_p, month |-> month_p, day |-> day_p, hour |-> hour_p]
    IN  _fill_twelve_stages(_fill_ten_gods(ps))

calculate_pillars(i) ==
    LET year_p == calculate_year_pillar(i.year, i.month, i.day)
        month_p == calculate_month_pillar(i.year, i.month, i.day)
        day_p == calculate_day_pillar(i.year, i.month, i.day)
        hour_p == calculate_hour_pillar(day_p.stem, i.hour)
        ps == [year |-> year_p, month |-> month_p, day |-> day_p, hour |-> hour_p]
    IN  _fill_twelve_stages(_fill_ten_gods(ps))

(***************************************************************************)
(* Element and polarity distributions (engine.py, A-02 and A-03).          *)
(***************************************************************************)
\* round(x, 1) of Python on a value in hundredths: the nearest tenth, a tie
\* going to the even tenth
Round1(x) ==
    LET q == x \div 10
        r == x % 10
    IN  IF r < 5 THEN 10 * q
        ELSE IF r > 5 THEN 10 * (q + 1)
        ELSE IF q % 2 = 0 THEN 10 * q ELSE 10 * (q + 1)

ZeroCounts == [el \in {"wood", "fire", "earth", "metal", "water"} |-> 0]

AddCount(counts, el, w) == [counts EXCEPT ![el] = @ + w]

\* AddHidden counting every hidden stem as one
RECURSIVE AddHidden_unweighted(_, _, _)
AddHidden_unweighted(counts, hs, k) ==
    IF k > Len(hs) THEN counts
    ELSE AddHidden_unweighted(AddCount(counts, STEM_INFO(hs[k].stem).element, 100),
                              hs, k + 1)

\* the inner loop of analyze_five_elements over p.hidden_stems from k on
RECURSIVE AddHidden(_, _, _)
AddHidden(counts, hs, k) ==
    IF k > Len(hs) THEN counts
    ELSE AddHidden(AddCount(counts, STEM_INFO(hs[k].stem).element, hs[k].weight), hs, k + 1)

\* the loop of analyze_five_elements over all_pillars from k on
RECURSIVE CountElements(_, _, _, _)
CountElements(counts, ps, k, include_hidden) ==
    IF k > Len(ps) THEN counts
    ELSE LET p == ps[k]
             c1 == AddCount(counts, p.stem_element, 100)
             c2 == IF include_hidden
                   THEN AddHidden(c1, p.hidden_stems, 1)
                   ELSE AddCount(c1, p.branch_element, 100)
         IN  CountElements(c2, ps, k + 1, include_hidden)

\* analyze_five_elements that takes the hidden stems whatever include_hidden is
analyze_five_elements_always_hidden(ps, include_hidden) ==
    LET counts == CountElements(ZeroCounts, all_pillars(ps), 1, TRUE)
        total == counts["wood"] + counts["fire"] + counts["earth"]
                 + counts["metal"] + counts["water"]
    IN  [wood |-> Round1(counts["wood"]),
         fire |-> Round1(counts["fire"]),
         earth |-> Round1(counts["earth"]),
         metal |-> Round1(counts["metal"]),
         water |-> Round1(counts["water"]),
         total |-> Round1(total),
         with_hidden_stems |-> include_hidden]

analyze_five_elements(ps, include_hidden) ==
    LET counts == CountElements(ZeroCounts, all_pillars(ps), 1, include_hidden)
        total == counts["wood"] + counts["fire"] + counts["earth"]
                 + counts["metal"] + counts["water"]
    IN  [wood |-> Round1(counts["wood"]),
         fire |-> Round1(counts["fire"]),
         earth |-> Round1(counts["earth"]),
         metal |-> Round1(counts["metal"]),
         water |-> Round1(counts["water"]),
         total |-> Round1(total),
         with_hidden_stems |-> include_hidden]

\* CountYinYang that counts a yin branch as nothing
RECURSIVE CountYinYang_branch_yang_only(_, _, _)
CountYinYang_branch_yang_only(yy, ps, k) ==
    IF k > Len(ps) THEN yy
    ELSE LET p == ps[k]
             s == IF p.stem_yinyang = "yang"
                  THEN [yy EXCEPT !.yang = @ + 1] ELSE [yy EXCEPT !.yin = @ + 1]
             b == IF p.branch_yinyang = "yang"
                  THEN [s EXCEPT !.yang = @ + 1] ELSE s
         IN  CountYinYang_branch_yang_only(b, ps, k + 1)

\* the loop of analyze_yin_yang over all_pillars from k on
RECURSIVE CountYinYang(_, _, _)
CountYinYang(yy, ps, k) ==
    IF k > Len(ps) THEN yy
    ELSE LET p == ps[k]
             s == IF p.stem_yinyang = "yang"
                  THEN [yy EXCEPT !.yang = @ + 1] ELSE [yy EXCEPT !.yin = @ + 1]
             b == IF p.branch_yinyang = "yang"
                  THEN [s EXCEPT !.yang = @ + 1] ELSE [s EXCEPT !.yin = @ + 1]
         IN  CountYinYang(b, ps, k + 1)

analyze_yin_yang(ps) == CountYinYang([yang |-> 0, yin |-> 0], all_pillars(ps), 1)

(***************************************************************************)
(* Strength of the day stem (engine.py, B-01).                             *)
(***************************************************************************)
STRENGTH_RULES ==
    [deukryeong |-> [same |-> 30, generate |-> 20],
     deukji |-> [same |-> 15, generate |-> 10],
     deukse |-> [same |-> 10, generate |-> 7],
     hidden_middle |-> 5,
     hidden_residual |-> 3]

StrengthFactor(factor, points) == [factor |-> factor, points |-> points]

\* total_score += pts with no factor appended
AddPoints_unrecorded(acc, factor, pts) ==
    [acc EXCEPT !.total_score = @ + pts]

\* factors.append(StrengthFactor(factor, ..., pts)); total_score += pts
AddPoints(acc, factor, pts) ==
    [factors |-> Append(acc.factors, StrengthFactor(factor, pts)),
     total_score |-> acc.total_score + pts]

\* factors.append(StrengthFactor(factor, ..., pts)) alone
AddFactorOnly(acc, factor, pts) ==
    [acc EXCEPT !.factors = Append(@, StrengthFactor(factor, pts))]

\* step 1 with no factor appended when the month branch does not help
Deukryeong_silent(acc, ps, ds_element) ==
    LET month_hidden_el ==
            IF ps.month.hidden_stems # << >>
            THEN Some(STEM_INFO(ps.month.hidden_stems[1].stem).element)
            ELSE None
        check_el == IF month_hidden_el # None THEN Val(month_hidden_el)
                    ELSE ps.month.branch_element
    IN  IF check_el = ds_element
        THEN AddPoints(acc, "deukryeong", STRENGTH_RULES.deukryeong.same)
        ELSE IF ELEMENT_GENERATED_BY(ds_element) = check_el
        THEN AddPoints(acc, "deukryeong", STRENGTH_RULES.deukryeong.generate)
        ELSE acc

\* step 1 of calculate_strength: the month branch against the day stem's element
Deukryeong(acc, ps, ds_element) ==
    LET month_hidden_el ==
            IF ps.month.hidden_stems # << >>
            THEN Some(STEM_INFO(ps.month.hidden_stems[1].stem).element)
            ELSE None
        check_el == IF month_hidden_el # None THEN Val(month_hidden_el)
                    ELSE ps.month.branch_element
    IN  IF check_el = ds_element
        THEN AddPoints(acc, "deukryeong", STRENGTH_RULES.deukryeong.same)
        ELSE IF ELEMENT_GENERATED_BY(ds_element) = check_el
        THEN AddPoints(acc, "deukryeong", STRENGTH_RULES.deukryeong.generate)
        ELSE AddFactorOnly(acc, "deukryeong", 0)

\* step 2, one turn of the loop: the primary hidden stem of the branch of an
\* optional pillar (day, hour)
Deukji(acc, op, ds_element) ==
    IF op = None THEN acc
    ELSE LET p == Val(op)
             bh_el == IF p.hidden_stems # << >>
                      THEN STEM_INFO(p.hidden_stems[1].stem).element
                      ELSE p.branch_element
         IN  IF bh_el = ds_element
             THEN AddPoints(acc, "deukji", STRENGTH_RULES.deukji.same)
             ELSE IF ELEMENT_GENERATED_BY(ds_element) = bh_el
             THEN AddPoints(acc, "deukji", STRENGTH_RULES.deukji.generate)
             ELSE acc

\* step 3, one turn of the loop: the bare stem of an optional pillar (year,
\* month, hour)
Deukse(acc, op, ds_element) ==
    IF op = None THEN acc
    ELSE LET p_el == STEM_INFO(Val(op).stem).element
         IN  IF p_el = ds_element
             THEN AddPoints(acc, "deukse", STRENGTH_RULES.deukse.same)
             ELSE IF ELEMENT_GENERATED_BY(ds_element) = p_el
             THEN AddPoints(acc, "deukse", STRENGTH_RULES.deukse.generate)
             ELSE acc

\* step 4, the inner loop: the hidden stems hs[k..] of one branch
RECURSIVE HiddenBonus(_, _, _, _)
HiddenBonus(acc, hs, k, ds_element) ==
    IF k > Len(hs) THEN acc
    ELSE HiddenBonus(
             IF STEM_INFO(hs[k].stem).element = ds_element
             THEN AddPoints(acc, "jijanggan",
                            IF hs[k].role = "junggi"
                            THEN STRENGTH_RULES.hidden_middle
                            ELSE STRENGTH_RULES.hidden_residual)
             ELSE acc,
             hs, k + 1, ds_element)

\* step 4, the outer loop over all_pillars from k on; hidden_stems[1:] leaves
\* the first hidden stem out
RECURSIVE AllHiddenBonus(_, _, _, _)
AllHiddenBonus(acc, ps, k, ds_element) ==
    IF k > Len(ps) THEN acc
    ELSE AllHiddenBonus(HiddenBonus(acc, ps[k].hidden_stems, 2, ds_element),
                        ps, k + 1, ds_element)

Min(a, b) == IF a < b THEN a ELSE b
Max(a, b) == IF a > b THEN a ELSE b

\* the five bands of calculate_strength
Grade(score) ==
    IF score >= 70 THEN "geuksingang"
    ELSE IF score >= 50 THEN "singang"
    ELSE IF score >= 40 THEN "junghwa"
    ELSE IF score >= 20 THEN "sinyak"
    ELSE "geuksinyak"

\* total_score before the clamp, with the factors recorded on the way
StrengthTotal(ps) ==
    LET ds_element == STEM_INFO(ps.day.stem).element
        a0 == [factors |-> << >>, total_score |-> 0]
        a1 == Deukryeong(a0, ps, ds_element)
        a2 == Deukji(Deukji(a1, Some(ps.day), ds_element), ps.hour, ds_element)
        a3 == Deukse(Deukse(Deukse(a2, Some(ps.year), ds_element),
                            Some(ps.month), ds_element),
                     ps.hour, ds_element)
    IN  AllHiddenBonus(a3, all_pillars(ps), 1, ds_element)

Clamp(total_score) == Min(Max(total_score, 0), 100)

\* calculate_strength with is_strong for a score above 50 only
calculate_strength_strict(ps) ==
    LET acc == StrengthTotal(ps)
        score == Clamp(acc.total_score)
    IN  [score |-> score,
         is_strong |-> (score > 50),
         grade |-> Grade(score),
         factors |-> acc.factors]

calculate_strength(ps) ==
    LET acc == StrengthTotal(ps)
        score == Clamp(acc.total_score)
    IN  [score |-> score,
         is_strong |-> (score >= 50),
         grade |-> Grade(score),
         factors |-> acc.factors]

(***************************************************************************)
(* Luck cycles (engine.py, B-02).                                          *)
(***************************************************************************)
\* datetime.date: the days of a common year before each month
DAYS_BEFORE_MONTH == <<0, 31, 59, 90, 120, 151, 181, 212, 243, 273, 304, 334>>

\* datetime.date: the days of the year y before its month m
days_before_month(y, m) ==
    DAYS_BEFORE_MONTH[m] + (IF m > 2 /\ IsLeapYear(y) THEN 1 ELSE 0)

\* datetime.date: the day number of a date, 0001-01-01 being day 1; the
\* difference of two dates in days is the difference of their day numbers
toordinal(y, m, d) ==
    LET py == y - 1
    IN  365 * py + (py \div 4) - (py \div 100) + (py \div 400)
            + days_before_month(y, m) + d

\* round(n / q) of Python 3: to the nearest integer, a tie to the even one
PyRound(n, q) ==
    LET f == n \div q
        r == n % q
    IN  IF 2 * r < q THEN f
        ELSE IF 2 * r > q THEN f + 1
        ELSE IF f % 2 = 0 THEN f ELSE f + 1

\* datetime.date(y, m, d) returns a date; it raises ValueError otherwise
date_ok(y, m, d) == y \in 1..9999 /\ IsValidDate(y, m, d)

\* datetime.date takes its arguments as C ints and raises OverflowError for
\* an integer from 2^31 on.  The integers of the model end at 2^31 - 1;
\* this last one stands for 2^31, the least integer that does not fit.
C_INT_OVERFLOW == 2147483647

\* datetime.date(y, m, d) raises OverflowError
date_overflows(y, m, d) ==
    y >= C_INT_OVERFLOW \/ m >= C_INT_OVERFLOW \/ d >= C_INT_OVERFLOW

\* the boundary dates of the years of ys, as day numbers; date(y, m, d)
\* raising ValueError leaves the boundary out
TermDatesOf(ys) ==
    {toordinal(yk[1], SOLAR_TERM_BOUNDARIES[yk[2]].m, SOLAR_TERM_BOUNDARIES[yk[2]].d) :
        yk \in {yk \in ys \X (1..Len(SOLAR_TERM_BOUNDARIES)) :
                    date_ok(yk[1], SOLAR_TERM_BOUNDARIES[yk[2]].m,
                            SOLAR_TERM_BOUNDARIES[yk[2]].d)}}

\* term_dates with the boundaries of the birth year alone
term_dates_birth_year(year) == TermDatesOf({year})

\* term_dates of _calc_luck_start_age
term_dates(year) == TermDatesOf({year - 1, year, year + 1})

\* [t for t in term_dates if t > birth_date]
next_terms(birth_date) ==
    LET birth == toordinal(birth_date[1], birth_date[2], birth_date[3])
    IN  {t \in term_dates(birth_date[1]) : t > birth}

\* [t for t in term_dates if t <= birth_date]
prev_terms(birth_date) ==
    LET birth == toordinal(birth_date[1], birth_date[2], birth_date[3])
    IN  {t \in term_dates(birth_date[1]) : t <= birth}

\* the first and the last element of a sorted list with the elements of S
First(S) == CHOOSE t \in S : \A u \in S : t <= u
Last(S) == CHOOSE t \in S : \A u \in S : t >= u

_calc_luck_start_age(birth_date, is_forward) ==
    LET birth == toordinal(birth_date[1], birth_date[2], birth_date[3])
        nexts == next_terms(birth_date)
        prevs == prev_terms(birth_date)
        days_diff ==
            IF is_forward
            THEN IF nexts # {} THEN First(nexts) - birth ELSE 15
            ELSE IF prevs # {} THEN birth - Last(prevs) ELSE 15
    IN  Max(1, PyRound(days_diff, 3))

\* is_forward taken from the polarity of the day stem
is_forward_day_stem(i, ps) ==
    LET is_yang_stem == ps.day.stem_yinyang = "yang"
        is_male == i.gender = Some("male")
    IN  (is_yang_stem /\ is_male) \/ (~is_yang_stem /\ ~is_male)

\* is_forward of calculate_luck_cycles, for a declared sex
is_forward(i, ps) ==
    LET is_yang_stem == ps.year.stem_yinyang = "yang"
        is_male == i.gender = Some("male")
    IN  (is_yang_stem /\ is_male) \/ (~is_yang_stem /\ ~is_male)

\* date(inp.year, inp.month, inp.day) of calculate_luck_cycles raises
\* ValueError; without a sex the function has returned before
luck_cycles_raise(i) ==
    i.gender # None /\ ~date_ok(i.year, i.month, i.day)

\* offset counted from the month pillar itself
luck_offset_from_month(forward, k) == IF forward THEN k ELSE -k

\* offset of turn k of the loop of calculate_luck_cycles
luck_offset(forward, k) == IF forward THEN k + 1 ELSE -(k + 1)

\* e_age one year late
luck_end_age_overlap(s_age) == s_age + 10

\* e_age of the loop of calculate_luck_cycles
luck_end_age(s_age) == s_age + 9

\* the decade pillar of turn k of the loop (k = 0 .. num_cycles - 1)
LuckPillar(i, ps, start_age, forward, k) ==
    LET offset == luck_offset(forward, k)
        stem_idx == (IndexOf(STEMS, ps.month.stem) + offset) % 10
        branch_idx == (IndexOf(BRANCHES, ps.month.branch) + offset) % 12
        stem == At(STEMS, stem_idx)
        s_age == start_age + k * 10
        e_age == luck_end_age(s_age)
    IN  [stem |-> stem,
         branch |-> At(BRANCHES, branch_idx),
         element |-> STEM_INFO(stem).element,
         ten_god |-> get_ten_god(ps.day.stem, stem),
         start_age |-> s_age,
         end_age |-> e_age,
         start_year |-> i.year + s_age,
         end_year |-> i.year + e_age]

\* the first decade pillar that has begun by current_age, or None
CurrentPillar_begun(luck_pillars, current_age) ==
    LET hits == {k \in 1..Len(luck_pillars) :
                    luck_pillars[k].start_age <= current_age}
    IN  IF hits = {} THEN None ELSE Some(luck_pillars[First(hits)])

\* the first decade pillar whose age range holds current_age, or None
CurrentPillar(luck_pillars, current_age) ==
    LET hits == {k \in 1..Len(luck_pillars) :
                    /\ luck_pillars[k].start_age <= current_age
                    /\ current_age <= luck_pillars[k].end_age}
    IN  IF hits = {} THEN None ELSE Some(luck_pillars[First(hits)])

\* calculate_luck_cycles with the years of the decades counted from
\* today_year
calculate_luck_cycles_from_today(i, ps, num_cycles, today_year) ==
    IF i.gender = None THEN None
    ELSE LET forward == is_forward(i, ps)
             start_age == _calc_luck_start_age(<<i.year, i.month, i.day>>, forward)
             luck_pillars ==
                 [k \in 1..num_cycles |->
                     LuckPillar([i EXCEPT !.year = today_year], ps, start_age,
                                forward, k - 1)]
         IN  Some([start_age |-> start_age,
                   direction |-> IF forward THEN "sunhaeng" ELSE "yeokhaeng",
                   pillars |-> luck_pillars,
                   current_pillar |-> CurrentPillar(luck_pillars, today_year - i.year)])

\* calculate_luck_cycles when date.today().year is today_year; defined
\* where the function does not raise
calculate_luck_cycles(i, ps, num_cycles, today_year) ==
    IF i.gender = None THEN None
    ELSE LET forward == is_forward(i, ps)
             start_age == _calc_luck_start_age(<<i.year, i.month, i.day>>, forward)
             luck_pillars ==
                 [k \in 1..num_cycles |-> LuckPillar(i, ps, start_age, forward, k - 1)]
         IN  Some([start_age |-> start_age,
                   direction |-> IF forward THEN "sunhaeng" ELSE "yeokhaeng",
                   pillars |-> luck_pillars,
                   current_pillar |-> CurrentPillar(luck_pillars, today_year - i.year)])

\* generate_luck_interpretation (interpretation.py): the parts that depend on
\* the luck cycles alone
generate_luck_interpretation(luck) ==
    IF luck = None THEN [available |-> FALSE]
    ELSE LET l == Val(luck)
         IN  [available |-> TRUE,
              direction |-> l.direction,
              start_age |-> l.start_age,
              timeline |->
                  [k \in 1..Len(l.pillars) |->
                      [start_age |-> l.pillars[k].start_age,
                       end_age |-> l.pillars[k].end_age,
                       start_year |-> l.pillars[k].start_year,
                       end_year |-> l.pillars[k].end_year,
                       is_current |->
                           /\ l.current_pillar # None
                           /\ l.pillars[k].start_age
                                  = Val(l.current_pillar).start_age]]]

(***************************************************************************)
(* The unknown hour (engine.py, H-01).                                     *)
(***************************************************************************)
\* one scenario of generate_time_scenarios
TimeScenario(ps, hour, label) ==
    LET hour_p == calculate_hour_pillar(ps.day.stem, Some(hour))
    IN  [label |-> label,
         hour |-> hour,
         pillar |-> hour_p,
         ten_god |-> IF hour_p # None
                     THEN get_ten_god(ps.day.stem, Val(hour_p).stem) ELSE "",
         twelve_stage |-> IF hour_p # None
                          THEN get_twelve_stage(ps.day.stem, Val(hour_p).branch)
                          ELSE ""]

test_hours == <<5, 12, 20>>

\* the labels of the scenarios, each the character of a branch followed by
\* the rest of the text
labels ==
    <<<<"yin", "si (saebyeok 5-si)">>, <<"wu", "si (jeongo 12-si)">>,
      <<"xu", "si (jeonyeok 20-si)">>>>

generate_time_scenarios(ps) ==
    [k \in 1..Min(Len(test_hours), Len(labels)) |->
        TimeScenario(ps, test_hours[k], labels[k])]

\* step 9 of generate_full_analysis with the scenarios built for every input
time_scenarios_always(i, ps) == generate_time_scenarios(ps)

\* step 9 of generate_full_analysis
time_scenarios(i, ps) ==
    IF i.hour = None THEN generate_time_scenarios(ps) ELSE << >>

(***************************************************************************)
(* Ten-god statistics (engine.py, A-06).                                   *)
(***************************************************************************)
TEN_GODS ==
    <<"bigyeon", "geopjae", "siksin", "sanggwan", "pyeonjae", "jeongjae",
      "pyeongwan", "jeonggwan", "pyeonin", "jeongin">>

\* the five groups of ten gods, in the order of the table
TEN_GOD_GROUPS ==
    <<<<"bigeop", {"bigyeon", "geopjae"}>>,
      <<"siksang", {"siksin", "sanggwan"}>>,
      <<"jaeseong", {"pyeonjae", "jeongjae"}>>,
      <<"gwanseong", {"pyeongwan", "jeonggwan"}>>,
      <<"inseong", {"pyeonin", "jeongin"}>>>>

RECURSIVE Flatten(_)
\* the lists of a list, appended one after the other
Flatten(seqs) ==
    IF seqs = << >> THEN << >> ELSE Head(seqs) \o Flatten(Tail(seqs))

pillar_names(ps) ==
    <<<<"year", Some(ps.year)>>, <<"month", Some(ps.month)>>,
      <<"day", Some(ps.day)>>, <<"hour", ps.hour>>>>

TenGodPosition(pname, position, char, tg) ==
    [pillar |-> pname, position |-> position, char |-> char, ten_god |-> tg]

\* the positions one pillar adds: its stem unless it is the day pillar, and
\* the primary hidden stem of its branch
TenGodPositionsOf(ds, pname, p) ==
    (IF pname # "day"
        THEN <<TenGodPosition(pname, "stem", p.stem, get_ten_god(ds, p.stem))>>
        ELSE << >>)
    \o (IF p.hidden_stems # << >>
           THEN <<TenGodPosition(pname, "branch", p.branch,
                                 get_ten_god(ds, p.hidden_stems[1].stem))>>
           ELSE << >>)

TenGodCounts(positions) ==
    [g \in {TEN_GODS[k] : k \in 1..Len(TEN_GODS)} |->
        Cardinality({k \in 1..Len(positions) : positions[k].ten_god = g})]

RECURSIVE SumCounts(_, _)
SumCounts(counts, gods) ==
    IF gods = {} THEN 0
    ELSE LET g == CHOOSE x \in gods : TRUE
         IN  counts[g] + SumCounts(counts, gods \ {g})

group_counts(counts) ==
    [k \in 1..Len(TEN_GOD_GROUPS) |-> SumCounts(counts, TEN_GOD_GROUPS[k][2])]

\* max(group_counts, key=group_counts.get) returns the last group with the
\* largest count
DominantGroup_last(counts) ==
    LET gc == group_counts(counts)
        k == CHOOSE k \in 1..Len(gc) :
                 /\ \A j \in 1..Len(gc) : gc[j] <= gc[k]
                 /\ \A j \in (k + 1)..Len(gc) : gc[j] < gc[k]
    IN  TEN_GOD_GROUPS[k][1]

\* max(group_counts, key=group_counts.get): the first group, in the order of
\* the table, with the largest count
DominantGroup(counts) ==
    LET gc == group_counts(counts)
        k == CHOOSE k \in 1..Len(gc) :
                 /\ \A j \in 1..Len(gc) : gc[j] <= gc[k]
                 /\ \A j \in 1..(k - 1) : gc[j] < gc[k]
    IN  TEN_GOD_GROUPS[k][1]

calculate_ten_god_stats(ps) ==
    LET names == pillar_names(ps)
        positions ==
            Flatten([k \in 1..Len(names) |->
                        IF names[k][2] = None THEN << >>
                        ELSE TenGodPositionsOf(ps.day.stem, names[k][1],
                                               Val(names[k][2]))])
        counts == TenGodCounts(positions)
    IN  [positions |-> positions, counts |-> counts,
         dominant_group |-> DominantGroup(counts)]

(***************************************************************************)
(* Interactions of stems and of branches (engine.py, A-08 and A-09).       *)
(* The description of an interaction, a sentence made of its other         *)
(* fields, is left out.                                                    *)
(***************************************************************************)
STEM_COMBINATIONS ==
    <<<<"Jia", "Ji", "earth", "JiaJi-hap">>,
      <<"Yi", "Geng", "metal", "YiGeng-hap">>,
      <<"Bing", "Xin", "water", "BingXin-hap">>,
      <<"Ding", "Ren", "wood", "DingRen-hap">>,
      <<"Wu", "Gui", "fire", "WuGui-hap">>>>

STEM_CLASHES ==
    <<<<"Jia", "Geng", "JiaGeng-chung">>,
      <<"Yi", "Xin", "YiXin-chung">>,
      <<"Bing", "Ren", "BingRen-chung">>,
      <<"Ding", "Gui", "DingGui-chung">>>>

BRANCH_SIX_COMBINATIONS ==
    <<<<"zi", "chou", "earth", "zichou-hap">>,
      <<"yin", "hai", "wood", "yinhai-hap">>,
      <<"mao", "xu", "fire", "maoxu-hap">>,
      <<"chen", "you", "metal", "chenyou-hap">>,
      <<"si", "shen", "water", "sishen-hap">>,
      <<"wu", "wei", "fire", "wuwei-hap">>>>

BRANCH_CLASHES ==
    <<<<"zi", "wu", "ziwu-chung">>,
      <<"chou", "wei", "chouwei-chung">>,
      <<"yin", "shen", "yinshen-chung">>,
      <<"mao", "you", "maoyou-chung">>,
      <<"chen", "xu", "chenxu-chung">>,
      <<"si", "hai", "sihai-chung">>>>

BRANCH_THREE_COMBINATIONS ==
    <<<<{"shen", "zi", "chen"}, "water", "shenzichen-samhap">>,
      <<{"hai", "mao", "wei"}, "wood", "haimaowei-samhap">>,
      <<{"yin", "wu", "xu"}, "fire", "yinwuxu-samhap">>,
      <<{"si", "you", "chou"}, "metal", "siyouchou-samhap">>>>

BRANCH_DIRECTIONAL ==
    <<<<{"yin", "mao", "chen"}, "wood", "yinmaochen-banghap">>,
      <<{"si", "wu", "wei"}, "fire", "siwuwei-banghap">>,
      <<{"shen", "you", "xu"}, "metal", "shenyouxu-banghap">>,
      <<{"hai", "zi", "chou"}, "water", "haizichou-banghap">>>>

BRANCH_PENALTIES ==
    <<<<{"yin", "si", "shen"}, "yinsishen-samhyeong">>,
      <<{"chou", "xu", "wei"}, "chouxuwei-samhyeong">>,
      <<{"zi", "mao"}, "zimao-hyeong">>>>

BRANCH_SELF_PENALTY == {"chen", "wu", "you", "hai"}

BRANCH_BREAKS ==
    <<<<"zi", "you">>, <<"chou", "chen">>, <<"yin", "hai">>,
      <<"mao", "wu">>, <<"si", "shen">>, <<"wei", "xu">>>>

BRANCH_HARMS ==
    <<<<"zi", "wei", "ziwei-hae">>,
      <<"chou", "wu", "chouwu-hae">>,
      <<"yin", "si", "yinsi-hae">>,
      <<"mao", "chen", "maochen-hae">>,
      <<"shen", "hai", "shenhai-hae">>,
      <<"you", "xu", "youxu-hae">>>>

\* an interaction of the characters of a list of (position, character)
Interaction(type, matching, result, name, severity, is_positive) ==
    [type |-> type,
     elements |-> [k \in 1..Len(matching) |-> matching[k][2]],
     positions |-> [k \in 1..Len(matching) |-> matching[k][1]],
     result |-> result, name |-> name, severity |-> severity,
     is_positive |-> is_positive]

\* the (position, stem) of the pillars that are present
stems_with_pos(ps) ==
    <<<<"nyeongan", ps.year.stem>>, <<"wolgan", ps.month.stem>>,
      <<"ilgan", ps.day.stem>>>>
    \o (IF ps.hour # None THEN <<<<"sigan", Val(ps.hour).stem>>>> ELSE << >>)

\* the (position, branch) of the pillars that are present
branches_with_pos(ps) ==
    <<<<"nyeonji", ps.year.branch>>, <<"wolji", ps.month.branch>>,
      <<"ilji", ps.day.branch>>>>
    \o (IF ps.hour # None THEN <<<<"siji", Val(ps.hour).branch>>>> ELSE << >>)

\* for i in range(n): for j in range(i + 1, i + 2), adjacent pillars only
IndexPairs_adjacent(n) ==
    SelectSeq(<<<<1, 2>>, <<2, 3>>, <<3, 4>>>>, LAMBDA ij : ij[2] <= n)

\* for i in range(n): for j in range(i + 1, n)
IndexPairs(n) ==
    SelectSeq(<<<<1, 2>>, <<1, 3>>, <<1, 4>>, <<2, 3>>, <<2, 4>>, <<3, 4>>>>,
              LAMBDA ij : ij[2] <= n)

\* the entries of a table of pairs that two characters match, in either order
MatchingEntries(table, c1, c2) ==
    SelectSeq(table, LAMBDA e : \/ (c1 = e[1] /\ c2 = e[2])
                                \/ (c1 = e[2] /\ c2 = e[1]))

\* the interaction appended for two characters that match an entry of the
\* table of a type
PairInteraction(type, x1, x2, e) ==
    CASE type = "cheonganhap" -> Interaction(type, <<x1, x2>>, e[3], e[4], 2, TRUE)
      [] type = "cheonganchung" -> Interaction(type, <<x1, x2>>, "", e[3], 2, FALSE)
      [] type = "jijiyukhap" -> Interaction(type, <<x1, x2>>, e[3], e[4], 2, TRUE)
      [] type = "jijichung" -> Interaction(type, <<x1, x2>>, "", e[3], 3, FALSE)
      [] type = "jijipa" ->
             Interaction(type, <<x1, x2>>, "", x1[2] \o x2[2] \o "pa", 1, FALSE)
      [] type = "jijihae" -> Interaction(type, <<x1, x2>>, "", e[3], 1, FALSE)

\* one loop over the pairs of positions and the entries of a table
PairInteractions(wp, pairs, table, type) ==
    Flatten([k \in 1..Len(pairs) |->
                LET x1 == wp[pairs[k][1]]
                    x2 == wp[pairs[k][2]]
                    es == MatchingEntries(table, x1[2], x2[2])
                IN  [n \in 1..Len(es) |-> PairInteraction(type, x1, x2, es[n])]])

\* the combination and the clash checks of each pair, pair after pair
find_stem_interactions(ps) ==
    LET wp == stems_with_pos(ps)
        pairs == IndexPairs(Len(wp))
    IN  Flatten([k \in 1..Len(pairs) |->
                    PairInteractions(wp, <<pairs[k]>>, STEM_COMBINATIONS, "cheonganhap")
                    \o PairInteractions(wp, <<pairs[k]>>, STEM_CLASHES, "cheonganchung")])

\* matching = [(pos, b) for pos, b in branches_with_pos if b in members]
Matching(wp, members) == SelectSeq(wp, LAMBDA x : x[2] \in members)

\* the interactions appended for the pillars that match a set of a table:
\* a three-combination from two pillars on, complete from three on; a
\* directional set from three pillars on; a penalty from two pillars on
SetInteraction(type, matching, e) ==
    CASE type = "jijisamhap" ->
             IF Len(matching) >= 2
             THEN LET is_full == Len(matching) >= 3
                  IN  <<Interaction(type, matching, e[2],
                                    e[3] \o (IF is_full THEN " (complete)" ELSE " (half)"),
                                    IF is_full THEN 3 ELSE 1, TRUE)>>
             ELSE << >>
      [] type = "jijibanghap" ->
             IF Len(matching) >= 3
             THEN <<Interaction(type, matching, e[2], e[3], 3, TRUE)>>
             ELSE << >>
      [] type = "jijihyeong" ->
             IF Len(matching) >= 2
             THEN <<Interaction(type, matching, "", e[2], 2, FALSE)>>
             ELSE << >>

\* one loop over the sets of a table
SetInteractions(wp, table, type) ==
    Flatten([k \in 1..Len(table) |->
                SetInteraction(type, Matching(wp, table[k][1]), table[k])])

\* the self-penalty check
SelfPenalties(wp) ==
    LET pairs == IndexPairs(Len(wp))
    IN  Flatten([k \in 1..Len(pairs) |->
                    LET x1 == wp[pairs[k][1]]
                        x2 == wp[pairs[k][2]]
                    IN  IF x1[2] = x2[2] /\ x1[2] \in BRANCH_SELF_PENALTY
                        THEN <<Interaction("jijihyeong", <<x1, x2>>, "",
                                           x1[2] \o x2[2] \o " jahyeong", 1, FALSE)>>
                        ELSE << >>])

find_branch_interactions(ps) ==
    LET wp == branches_with_pos(ps)
        pairs == IndexPairs(Len(wp))
    IN  PairInteractions(wp, pairs, BRANCH_SIX_COMBINATIONS, "jijiyukhap")
        \o PairInteractions(wp, pairs, BRANCH_CLASHES, "jijichung")
        \o SetInteractions(wp, BRANCH_THREE_COMBINATIONS, "jijisamhap")
        \o SetInteractions(wp, BRANCH_DIRECTIONAL, "jijibanghap")
        \o SetInteractions(wp, BRANCH_PENALTIES, "jijihyeong")
        \o SelfPenalties(wp)
        \o PairInteractions(wp, pairs, BRANCH_BREAKS, "jijipa")
        \o PairInteractions(wp, pairs, BRANCH_HARMS, "jijihae")

\* step 5 of generate_full_analysis
interactions(ps) == find_stem_interactions(ps) \o find_branch_interactions(ps)

(***************************************************************************)
(* Inputs and their validation (engine.py, H-05).                          *)
(***************************************************************************)
MinYear == 1900
MaxYear == 2100

\* validate_input when date.today() is the date now; an error message is
\* written as the name of its check
validate_input(i, now) ==
    LET range_errors ==
               (IF ~(MinYear <= i.year /\ i.year <= MaxYear) THEN <<"year">> ELSE << >>)
            \o (IF ~(1 <= i.month /\ i.month <= 12) THEN <<"month">> ELSE << >>)
            \o (IF ~(1 <= i.day /\ i.day <= 31) THEN <<"day">> ELSE << >>)
        date_errors ==
            IF /\ range_errors = << >>
               /\ i.calendar_type = "solar"
               /\ ~date_ok(i.year, i.month, i.day)
            THEN <<"date">> ELSE << >>
        hour_errors ==
            IF i.hour # None /\ ~(0 <= Val(i.hour) /\ Val(i.hour) <= 23)
            THEN <<"hour">> ELSE << >>
        gender_errors ==
            IF i.gender # None /\ i.gender \notin {Some("male"), Some("female")}
            THEN <<"gender">> ELSE << >>
        future_errors ==
            IF /\ i.calendar_type = "solar"
               /\ date_ok(i.year, i.month, i.day)
               /\ toordinal(i.year, i.month, i.day) > toordinal(now[1], now[2], now[3])
            THEN <<"future">> ELSE << >>
    IN  range_errors \o date_errors \o hour_errors \o gender_errors \o future_errors

\* validate_input raises: date(...) of the future-date check is called for
\* every solar input and only its ValueError is caught
validate_input_raises(i) ==
    i.calendar_type = "solar" /\ date_overflows(i.year, i.month, i.day)

BirthInput(y, m, d, hour, calendar_type, gender, name) ==
    [year |-> y, month |-> m, day |-> d, hour |-> hour,
     calendar_type |-> calendar_type, gender |-> gender, name |-> name]

\* the calendar dates of the years lo..hi
Dates(lo, hi) ==
    {ymd \in (lo..hi) \X (1..12) \X (1..31) : IsValidDate(ymd[1], ymd[2], ymd[3])}

\* every calendar date of the years validate_input lets through
AllDates == Dates(MinYear, MaxYear)

Hours == {None} \cup {Some(h) : h \in 0..23}
Genders == {None, Some("male"), Some("female")}
CalendarTypes == {"solar", "lunar"}
Names == {None, Some("Hong Gildong")}

\* the years of the charts that are analysed and of the repeated calls
FirstYear == 1989
NumYears == 1
\* the repeated calls take their dates from the last ResubmitDays days of
\* January and the first ResubmitDays days of February of FirstYear
ResubmitDays == 10

WindowDates == Dates(FirstYear, FirstYear + NumYears - 1)

ResubmitDates ==
    {ymd \in Dates(FirstYear, FirstYear) :
        \/ ymd[2] = 1 /\ ymd[3] > 31 - ResubmitDays
        \/ ymd[2] = 2 /\ ymd[3] <= ResubmitDays}

\* the year of the day the program runs, and that day
TodayYear == 2026
Today == <<TodayYear, 6, 15>>

\* the luck cycles are calculated for every date of LuckYears years from
\* FirstYear on, and for the days of ResubmitDates in every year from
\* MinYear to this year; all of them dates before today
LuckYears == 12
LuckDates ==
    Dates(FirstYear, FirstYear + LuckYears - 1)
        \cup {<<y, ymd[2], ymd[3]>> : y \in MinYear..TodayYear, ymd \in ResubmitDates}

\* a second analysis of a chart runs up to RepeatYears years after the first
RepeatYears == 10
LaterDays(now) == {<<now[1] + n, now[2], now[3]>> : n \in 0..RepeatYears}

NoPillars == << >>
NoReport == << >>

(***************************************************************************)
(* Actions.                                                                *)
(***************************************************************************)
\* calculate_pillars(inp): step 1 of generate_full_analysis
CalculatePillars ==
    /\ pc = "input"
    /\ pillars' = calculate_pillars(inp)
    /\ pc' = "pillars"
    /\ UNCHANGED <<inp, report, prev, today, errors>>

\* steps 2, 3, 6, 7 and 9 of generate_full_analysis and the FullReport, on
\* the day now; generated_at is kept to the day
FullReport(i, ps, now) ==
    [element_stats |-> analyze_five_elements(ps, FALSE),
     element_stats_with_hidden |-> analyze_five_elements(ps, TRUE),
     yinyang_stats |-> analyze_yin_yang(ps),
     ten_god_stats |-> calculate_ten_god_stats(ps),
     interactions |-> interactions(ps),
     strength |-> calculate_strength(ps),
     luck_cycles |-> calculate_luck_cycles(i, ps, 9, now[1]),
     time_scenarios |-> time_scenarios(i, ps),
     generated_at |-> now]

\* generate_full_analysis after step 1, returning the report
AnalyzeChart ==
    /\ pc = "pillars"
    /\ ~luck_cycles_raise(inp)
    /\ report' = FullReport(inp, pillars, today)
    /\ pc' = "done"
    /\ UNCHANGED <<inp, pillars, prev, today, errors>>

\* generate_full_analysis after step 1, ValueError raised in step 7
AnalyzeChartRaises ==
    /\ pc = "pillars"
    /\ luck_cycles_raise(inp)
    /\ pc' = "error"
    /\ UNCHANGED <<inp, pillars, report, prev, today, errors>>

\* calculate_luck_cycles(inp, pillars) called on its own, returning
CalculateLuckCycles ==
    /\ pc = "pillars"
    /\ ~luck_cycles_raise(inp)
    /\ report' = [luck_cycles |-> calculate_luck_cycles(inp, pillars, 9, today[1])]
    /\ pc' = "luck"
    /\ UNCHANGED <<inp, pillars, prev, today, errors>>

\* steps 4 and 5 of generate_full_analysis: calculate_ten_god_stats,
\* find_stem_interactions and find_branch_interactions called on their own
AnalyzeRelations ==
    /\ pc = "pillars"
    /\ report' = [ten_god_stats |-> calculate_ten_god_stats(pillars),
                  interactions |-> interactions(pillars)]
    /\ pc' = "relations"
    /\ UNCHANGED <<inp, pillars, prev, today, errors>>

\* calculate_pillars and calculate_luck_cycles called a second time, on
\* another date and sex
RecalculateLuck ==
    /\ pc = "luck"
    /\ prev = None
    /\ \E ymd \in ResubmitDates, g \in {Some("male"), Some("female")} :
          LET i == [inp EXCEPT !.year = ymd[1], !.month = ymd[2], !.day = ymd[3],
                               !.gender = g]
              ps == calculate_pillars(i)
          IN  /\ prev' = Some([inp |-> inp, pillars |-> pillars, report |-> report])
              /\ inp' = i
              /\ pillars' = ps
              /\ report' = [luck_cycles |-> calculate_luck_cycles(i, ps, 9, today[1])]
    /\ UNCHANGED <<pc, today, errors>>

\* generate_full_analysis(inp) called a second time on the same input, the
\* same day or on a later one
Reanalyze ==
    /\ pc = "done"
    /\ prev = None
    /\ prev' = Some([inp |-> inp, pillars |-> pillars, report |-> report])
    /\ today' \in LaterDays(today)
    /\ pillars' = calculate_pillars(inp)
    /\ report' = FullReport(inp, pillars', today')
    /\ UNCHANGED <<inp, pc, errors>>

\* the button handler of render_sidebar up to the call of
\* generate_full_analysis: validate_input(inp) and the branch on its result
ValidateInput ==
    /\ pc = "form"
    /\ ~validate_input_raises(inp)
    /\ errors' = validate_input(inp, today)
    /\ pc' = IF errors' = << >> THEN "input" ELSE "rejected"
    /\ UNCHANGED <<inp, pillars, report, prev, today>>

\* the button handler of render_sidebar, validate_input(inp) raising
ValidateInputRaises ==
    /\ pc = "form"
    /\ validate_input_raises(inp)
    /\ pc' = "crashed"
    /\ UNCHANGED <<inp, pillars, report, prev, today, errors>>

\* calculate_pillars called a second time, on the input i
Recalculate(i) ==
    /\ pc = "pillars"
    /\ prev = None
    /\ prev' = Some([inp |-> inp, pillars |-> pillars])
    /\ inp' = i
    /\ pillars' = calculate_pillars(i)
    /\ UNCHANGED <<pc, report, today, errors>>

RecalculateHour == \E h \in Hours : Recalculate([inp EXCEPT !.hour = h])

RecalculateGender == \E g \in Genders : Recalculate([inp EXCEPT !.gender = g])

RecalculateName == \E n \in Names : Recalculate([inp EXCEPT !.name = n])

RecalculateCalendarType ==
    \E c \in CalendarTypes : Recalculate([inp EXCEPT !.calendar_type = c])

RecalculateDate ==
    \E ymd \in ResubmitDates :
        Recalculate([inp EXCEPT !.year = ymd[1], !.month = ymd[2], !.day = ymd[3]])

(***************************************************************************)
(* Specifications.                                                         *)
(***************************************************************************)
InitWith(inputs) ==
    /\ inp \in inputs
    /\ pc = "input"
    /\ pillars = NoPillars
    /\ report = NoReport
    /\ prev = None
    /\ today = Today
    /\ errors = << >>

\* the charts of the dates of the window, with every hour and sex
Init ==
    InitWith({BirthInput(ymd[1], ymd[2], ymd[3], h, "solar", g, None) :
                  ymd \in WindowDates, h \in Hours, g \in Genders})

Next == CalculatePillars \/ AnalyzeChart

Spec == Init /\ [][Next]_vars

\* every date of the accepted range, hour, sex and name not given
InitDates ==
    InitWith({BirthInput(ymd[1], ymd[2], ymd[3], None, "solar", None, None) :
                  ymd \in AllDates})

NextDates == CalculatePillars

SpecDates == InitDates /\ [][NextDates]_vars

\* calculate_pillars called twice, on inputs that differ in one field or in
\* the date
InitResubmit ==
    InitWith({BirthInput(ymd[1], ymd[2], ymd[3], h, c, g, n) :
                  ymd \in ResubmitDates, h \in Hours, c \in CalendarTypes,
                  g \in Genders, n \in Names})

NextResubmit ==
    \/ CalculatePillars
    \/ RecalculateHour
    \/ RecalculateGender
    \/ RecalculateName
    \/ RecalculateCalendarType
    \/ RecalculateDate

SpecResubmit == InitResubmit /\ [][NextResubmit]_vars

\* the luck cycles of the dates of LuckDates, for either sex
InitLuck ==
    InitWith({BirthInput(ymd[1], ymd[2], ymd[3], None, "solar", g, None) :
                  ymd \in LuckDates, g \in {Some("male"), Some("female")}})

NextLuck == CalculatePillars \/ CalculateLuckCycles

SpecLuck == InitLuck /\ [][NextLuck]_vars

\* the ten-god statistics and the interactions of the charts of twelve years
\* and more, at an hour of each two-hour slot and without an hour
ChartYears == 12

InitRelations ==
    InitWith({BirthInput(ymd[1], ymd[2], ymd[3], h, "solar", None, None) :
                  ymd \in Dates(FirstYear, FirstYear + ChartYears - 1),
                  h \in {None} \cup {Some(2 * k + 1) : k \in 0..11}})

NextRelations == CalculatePillars \/ AnalyzeRelations

SpecRelations == InitRelations /\ [][NextRelations]_vars

\* the luck cycles of two charts
InitLuckPair ==
    InitWith({BirthInput(ymd[1], ymd[2], ymd[3], None, "solar", g, None) :
                  ymd \in ResubmitDates, g \in {Some("male"), Some("female")}})

NextLuckPair == CalculatePillars \/ CalculateLuckCycles \/ RecalculateLuck

SpecLuckPair == InitLuckPair /\ [][NextLuckPair]_vars

\* a chart analysed twice
InitRepeat ==
    InitWith({BirthInput(ymd[1], ymd[2], ymd[3], h, "solar", g, None) :
                  ymd \in ResubmitDates, h \in Hours, g \in Genders})

NextRepeat == CalculatePillars \/ AnalyzeChart \/ Reanalyze

SpecRepeat == InitRepeat /\ [][NextRepeat]_vars

\* the values of the fields of a submitted input: in range, just out of
\* range, far out of range, and days that some months do not have
SubmittedYears ==
    {MinYear - 1, MinYear, TodayYear - 1, TodayYear, TodayYear + 1,
     MaxYear, MaxYear + 1, C_INT_OVERFLOW}
SubmittedMonths == 0..13
SubmittedDays == 0..32
SubmittedHours == {None, Some(12), Some(24)}
SubmittedGenders == Genders \cup {Some("other")}

\* an input is submitted, validated and, when validate_input returns no
\* error, analysed
InitValidate ==
    /\ inp \in {BirthInput(y, m, d, h, c, g, None) :
                    y \in SubmittedYears, m \in SubmittedMonths,
                    d \in SubmittedDays, h \in SubmittedHours,
                    c \in CalendarTypes, g \in SubmittedGenders}
    /\ pc = "form"
    /\ pillars = NoPillars
    /\ report = NoReport
    /\ prev = None
    /\ today = Today
    /\ errors = << >>

NextValidate ==
    \/ ValidateInput
    \/ ValidateInputRaises
    \/ CalculatePillars
    \/ AnalyzeChart
    \/ AnalyzeChartRaises

SpecValidate == InitValidate /\ [][NextValidate]_vars

(***************************************************************************)
(* The day pillar (C1).                                                    *)
(***************************************************************************)
\* the number of days from 1 January of MinYear to 1 January of y
DaysBeforeYear(y) ==
    365 * (y - MinYear) + Cardinality({k \in MinYear..(y - 1) : IsLeapYear(k)})

\* the number of days from 1 January of y to the first day of month m of y
RECURSIVE DaysBeforeMonth(_, _)
DaysBeforeMonth(y, m) ==
    IF m = 1 THEN 0 ELSE DaysBeforeMonth(y, m - 1) + DaysInMonth(y, m - 1)

DayCount(y, m, d) == DaysBeforeYear(y) + DaysBeforeMonth(y, m) + d

\* the Julian Day Number by counting calendar days from 2024-01-01, which
\* is JDN 2460311
CountedJDN(y, m, d) == 2460311 + DayCount(y, m, d) - DayCount(2024, 1, 1)

\* C1: for every date the day stem is STEMS[(JDN + 7) mod 10] and the day
\* branch is BRANCHES[(JDN + 5) mod 12], JDN being the Julian Day Number of the
\* date, which compute_jdn returns; compute_jdn(2024,1,1) = 2460311 and
\* 2024-01-01 has the stem Ren (index 8) and the branch chen (index 4).
ThmC1 ==
    pc = "pillars" =>
        LET jdn == CountedJDN(inp.year, inp.month, inp.day)
        IN  /\ compute_jdn(inp.year, inp.month, inp.day) = jdn
            /\ pillars.day.stem = At(STEMS, (jdn + 7) % 10)
            /\ pillars.day.branch = At(BRANCHES, (jdn + 5) % 12)
            /\ (inp.year = 2024 /\ inp.month = 1 /\ inp.day = 1) =>
                   /\ compute_jdn(inp.year, inp.month, inp.day) = 2460311
                   /\ pillars.day.stem = "Ren"
                   /\ IndexOf(STEMS, pillars.day.stem) = 8
                   /\ pillars.day.branch = "chen"
                   /\ IndexOf(BRANCHES, pillars.day.branch) = 4

WitnessC1 ==
    /\ pc = "pillars"
    /\ inp.year = 2024 /\ inp.month = 1 /\ inp.day = 1
    /\ pillars.day.stem = "Ren"
    /\ pillars.day.branch = "chen"

(***************************************************************************)
(* The year pillar (C2).                                                   *)
(***************************************************************************)
\* C2: the adjusted year is year - 1 when the date is before 4 February and
\* year otherwise (4 February belongs to the new year); the year stem index is
\* (adjusted year - 4) mod 10 and the year branch index (adjusted year - 4)
\* mod 12.
ThmC2 ==
    pc = "pillars" =>
        LET adjusted == IF inp.month < 2 \/ (inp.month = 2 /\ inp.day < 4)
                        THEN inp.year - 1 ELSE inp.year
        IN  /\ get_year_for_pillars(inp.year, inp.month, inp.day) = adjusted
            /\ IndexOf(STEMS, pillars.year.stem) = (adjusted - 4) % 10
            /\ IndexOf(BRANCHES, pillars.year.branch) = (adjusted - 4) % 12

\* 4 February 2024 has the pillar of 2024, Jia chen
WitnessC2 ==
    /\ pc = "pillars"
    /\ inp.year = 2024 /\ inp.month = 2 /\ inp.day = 4
    /\ pillars.year.stem = "Jia"
    /\ pillars.year.branch = "chen"

(***************************************************************************)
(* The month pillar (C3, C4).                                              *)
(***************************************************************************)
Boundaries == {SOLAR_TERM_BOUNDARIES[k] : k \in 1..Len(SOLAR_TERM_BOUNDARIES)}

NotAfter(t, m, d) == t.m < m \/ (t.m = m /\ t.d <= d)

Later(t, u) == t.m > u.m \/ (t.m = u.m /\ t.d > u.d)

\* the latest boundary not after (m, d); when (m, d) precedes every boundary
\* of its year, the last boundary of the year before, that is the latest of all
LatestBoundary(m, d) ==
    LET past == {t \in Boundaries : NotAfter(t, m, d)}
        among == IF past = {} THEN Boundaries ELSE past
    IN  CHOOSE t \in among : \A u \in among : u = t \/ Later(t, u)

\* the branch of the month that begins at the boundary t
BoundaryBranch(t) == At(BRANCHES, (t.idx + 2) % 12)

\* C3: the month branch is the branch of the latest solar-term boundary that
\* is not after the date; a date before every boundary of its calendar year
\* has the branch of the December boundary.
ClaimC3 ==
    pc = "pillars" =>
        pillars.month.branch = BoundaryBranch(LatestBoundary(inp.month, inp.day))

\* C4: the month stem index is (index of MONTH_STEM_START[Y] + k) mod 10, Y
\* being the stem of the year pillar of the same date and k in 0..11 the number
\* of branch steps from yin to the month branch.
ThmC4 ==
    pc = "pillars" =>
        LET Y == pillars.year.stem
            k == (IndexOf(BRANCHES, pillars.month.branch)
                  - IndexOf(BRANCHES, "yin") + 12) % 12
        IN  IndexOf(STEMS, pillars.month.stem)
                = (IndexOf(STEMS, MONTH_STEM_START(Y)) + k) % 10

\* 15 January 2024: the year stem is that of 2023, Gui, whose yin month
\* starts on Jia; the chou month is 11 steps on, Yi
WitnessC4 ==
    /\ pc = "pillars"
    /\ inp.year = 2024 /\ inp.month = 1 /\ inp.day = 15
    /\ pillars.year.stem = "Gui"
    /\ pillars.month.branch = "chou"
    /\ pillars.month.stem = "Yi"

(***************************************************************************)
(* The hour pillar (C5).                                                   *)
(***************************************************************************)
\* the two-hour slot of an hour: slot s covers the hours 2s - 1 and 2s, slot 0
\* the hours 23 and 0
SlotOf(h) == CHOOSE s \in 0..11 : h = 2 * s \/ h = (2 * s + 23) % 24

\* C5: the hour pillar is absent exactly when no hour is given; for an hour in
\* 0..23 its branch is that of the two-hour slot of the hour and its stem index
\* is (index of HOUR_STEM_START[day stem] + slot) mod 10.
ThmC5 ==
    pc = "pillars" =>
        /\ pillars.hour = None <=> inp.hour = None
        /\ inp.hour # None =>
               LET slot == SlotOf(Val(inp.hour))
                   hp == Val(pillars.hour)
               IN  /\ hp.branch = At(BRANCHES, slot)
                   /\ IndexOf(STEMS, hp.stem)
                          = (IndexOf(STEMS, HOUR_STEM_START(pillars.day.stem)) + slot) % 10

\* 23 o'clock of a Geng day: slot 0, the branch zi, the stem Bing
WitnessC5 ==
    /\ pc = "pillars"
    /\ inp.hour = Some(23)
    /\ pillars.day.stem = "Geng"
    /\ pillars.hour # None
    /\ Val(pillars.hour).branch = "zi"
    /\ Val(pillars.hour).stem = "Bing"

(***************************************************************************)
(* Two calls of calculate_pillars (C6).                                    *)
(***************************************************************************)
SameDate(i, j) == i.year = j.year /\ i.month = j.month /\ i.day = j.day

\* C6: two inputs that differ only in hour, sex, name or calendar type have
\* the same year, month and day pillars, and two inputs with the same hour and
\* the same day stem have the same hour pillar.
ThmC6 ==
    (pc = "pillars" /\ prev # None) =>
        LET before == Val(prev)
        IN  /\ SameDate(before.inp, inp) =>
                   /\ pillars.year = before.pillars.year
                   /\ pillars.month = before.pillars.month
                   /\ pillars.day = before.pillars.day
            /\ (before.inp.hour = inp.hour
                    /\ before.pillars.day.stem = pillars.day.stem) =>
                   pillars.hour = before.pillars.hour

\* the same date at 14 o'clock and then at 23 o'clock
WitnessC6 ==
    /\ pc = "pillars"
    /\ prev # None
    /\ SameDate(Val(prev).inp, inp)
    /\ Val(prev).inp.hour = Some(14)
    /\ inp.hour = Some(23)
    /\ pillars.day = Val(prev).pillars.day
    /\ pillars.hour # Val(prev).pillars.hour

(***************************************************************************)
(* Element and polarity totals (C7, C8, C9).                               *)
(***************************************************************************)
ElementSum(es) == es.wood + es.fire + es.earth + es.metal + es.water

RECURSIVE SumWeights(_)
SumWeights(hs) == IF hs = << >> THEN 0 ELSE Head(hs)[2] + SumWeights(Tail(hs))

\* the branches of the present pillars
PresentBranches(ps) ==
    <<ps.year.branch, ps.month.branch, ps.day.branch>>
        \o (IF ps.hour = None THEN << >> ELSE <<Val(ps.hour).branch>>)

\* the sum of the hidden-stem weights of the present branches, by the table
RECURSIVE HiddenWeightOf(_)
HiddenWeightOf(bs) ==
    IF bs = << >> THEN 0
    ELSE SumWeights(HIDDEN_STEMS(Head(bs))) + HiddenWeightOf(Tail(bs))

\* C7: without hidden stems the five element counts sum to 8 when the hour
\* pillar is present and to 6 when it is absent, and total is that sum.
ThmC7 ==
    pc = "done" =>
        /\ ElementSum(report.element_stats)
               = (IF pillars.hour # None THEN 800 ELSE 600)
        /\ report.element_stats.total = ElementSum(report.element_stats)

WitnessC7 ==
    /\ pc = "done"
    /\ pillars.hour = None
    /\ ElementSum(report.element_stats) = 600
    /\ report.element_stats.total = 600

\* C8 as stated: with hidden stems the counts sum to 4 plus the hidden-stem
\* weights of the present branches, the hour known or not.
ClaimC8 ==
    pc = "done" =>
        ElementSum(report.element_stats_with_hidden)
            = 400 + HiddenWeightOf(PresentBranches(pillars))

\* C8 amended: with hidden stems the counts sum to the number of present
\* stems (4 with an hour pillar, 3 without) plus the hidden-stem weights of
\* the present branches.
ThmC8 ==
    pc = "done" =>
        ElementSum(report.element_stats_with_hidden)
            = (IF pillars.hour # None THEN 400 ELSE 300)
              + HiddenWeightOf(PresentBranches(pillars))

WitnessC8 ==
    /\ pc = "done"
    /\ pillars.hour = None
    /\ ElementSum(report.element_stats_with_hidden)
           = 300 + HiddenWeightOf(PresentBranches(pillars))

\* C9: yang count + yin count is twice the number of present pillars, 8 with
\* an hour pillar and 6 without.
ThmC9 ==
    pc = "done" =>
        /\ report.yinyang_stats.yang + report.yinyang_stats.yin
               = 2 * Len(PresentBranches(pillars))
        /\ report.yinyang_stats.yang + report.yinyang_stats.yin
               = (IF pillars.hour # None THEN 8 ELSE 6)

WitnessC9 ==
    /\ pc = "done"
    /\ pillars.hour # None
    /\ report.yinyang_stats.yang + report.yinyang_stats.yin = 8
    /\ report.yinyang_stats.yang > 0
    /\ report.yinyang_stats.yin > 0

(***************************************************************************)
(* The strength score (C10).                                               *)
(***************************************************************************)
\* C10: the score lies in [0,100]; is_strong holds exactly when score >= 50;
\* the grade is the band of the score, the lower bounds 70, 50, 40 and 20
\* being inclusive.
ThmC10 ==
    pc = "done" =>
        LET st == report.strength
        IN  /\ st.score >= 0 /\ st.score <= 100
            /\ st.is_strong <=> st.score >= 50
            /\ st.grade = "geuksingang" <=> st.score >= 70
            /\ st.grade = "singang" <=> (st.score >= 50 /\ st.score < 70)
            /\ st.grade = "junghwa" <=> (st.score >= 40 /\ st.score < 50)
            /\ st.grade = "sinyak" <=> (st.score >= 20 /\ st.score < 40)
            /\ st.grade = "geuksinyak" <=> st.score < 20

WitnessC10 ==
    /\ pc = "done"
    /\ report.strength.score = 50
    /\ report.strength.is_strong
    /\ report.strength.grade = "singang"

(***************************************************************************)
(* The factors of the strength score (C11).                                *)
(***************************************************************************)
RECURSIVE SumPoints(_)
SumPoints(factors) ==
    IF factors = << >> THEN 0 ELSE Head(factors).points + SumPoints(Tail(factors))

\* C11: the points of the returned factors sum to the running total before
\* the clamp, so the score is the clamped sum of the factors' points.
ThmC11 ==
    pc = "done" =>
        /\ SumPoints(report.strength.factors) = StrengthTotal(pillars).total_score
        /\ report.strength.score = Clamp(SumPoints(report.strength.factors))

\* a chart with a zero-point factor, with factors of all four kinds and a
\* total above zero
WitnessC11 ==
    /\ pc = "done"
    /\ \E k \in 1..Len(report.strength.factors) :
           report.strength.factors[k].points = 0
    /\ {report.strength.factors[k].factor : k \in 1..Len(report.strength.factors)}
           = {"deukryeong", "deukji", "deukse", "jijanggan"}
    /\ SumPoints(report.strength.factors) > 0

(***************************************************************************)
(* The direction of the luck cycles (C12, C13).                            *)
(***************************************************************************)
\* the stem is one of the five yang stems, which stand at the even places
YangStem(stem) == stem \in {"Jia", "Bing", "Wu", "Geng", "Ren"}

\* C12: with a declared sex the direction is forward exactly for a yang year
\* stem and a male, or a yin year stem and a female, and backward otherwise;
\* without a sex the luck cycles are None, the interpretation says they are
\* not available, and no error was raised.
ThmC12 ==
    /\ pc = "done" =>
          IF inp.gender = None
          THEN /\ report.luck_cycles = None
               /\ ~generate_luck_interpretation(report.luck_cycles).available
          ELSE /\ report.luck_cycles # None
               /\ Val(report.luck_cycles).direction \in {"sunhaeng", "yeokhaeng"}
               /\ Val(report.luck_cycles).direction = "sunhaeng" <=>
                      \/ YangStem(pillars.year.stem) /\ inp.gender = Some("male")
                      \/ ~YangStem(pillars.year.stem) /\ inp.gender = Some("female")
               /\ generate_luck_interpretation(report.luck_cycles).direction
                      = Val(report.luck_cycles).direction
    /\ pc = "error" => inp.gender # None

\* a female of a yin year whose day stem is yang: forward
WitnessC12 ==
    /\ pc = "done"
    /\ inp.gender = Some("female")
    /\ ~YangStem(pillars.year.stem)
    /\ YangStem(pillars.day.stem)
    /\ Val(report.luck_cycles).direction = "sunhaeng"

\* the luck cycles of two charts have been calculated
TwoCharts == pc = "luck" /\ prev # None

PrevDirection == Val(Val(prev).report.luck_cycles).direction

\* C13 as stated: two charts with the same day-stem polarity and the same
\* sex get the same direction.
ClaimC13 ==
    (/\ TwoCharts
     /\ YangStem(Val(prev).pillars.day.stem) <=> YangStem(pillars.day.stem)
     /\ Val(prev).inp.gender = inp.gender)
        => PrevDirection = Val(report.luck_cycles).direction

\* C13, amended: two charts with the same year-stem polarity and the same
\* sex get the same direction, and two charts of the same sex whose year
\* stems differ in polarity get different directions.
ThmC13 ==
    (TwoCharts /\ Val(prev).inp.gender = inp.gender) =>
        ((YangStem(Val(prev).pillars.year.stem) <=> YangStem(pillars.year.stem))
            <=> PrevDirection = Val(report.luck_cycles).direction)

\* two charts of the same sex and year-stem polarity whose day stems differ
\* in polarity
WitnessC13 ==
    /\ TwoCharts
    /\ Val(prev).inp.gender = inp.gender
    /\ YangStem(Val(prev).pillars.year.stem) <=> YangStem(pillars.year.stem)
    /\ ~(YangStem(Val(prev).pillars.day.stem) <=> YangStem(pillars.day.stem))
    /\ PrevDirection = Val(report.luck_cycles).direction

(***************************************************************************)
(* The starting age of the luck cycles (C14).                              *)
(***************************************************************************)
BoundaryDays == {<<t.m, t.d>> : t \in Boundaries}

NextDay(ymd) ==
    IF ymd[3] < DaysInMonth(ymd[1], ymd[2]) THEN <<ymd[1], ymd[2], ymd[3] + 1>>
    ELSE IF ymd[2] < 12 THEN <<ymd[1], ymd[2] + 1, 1>>
    ELSE <<ymd[1] + 1, 1, 1>>

PrevDay(ymd) ==
    IF ymd[3] > 1 THEN <<ymd[1], ymd[2], ymd[3] - 1>>
    ELSE IF ymd[2] > 1 THEN <<ymd[1], ymd[2] - 1, DaysInMonth(ymd[1], ymd[2] - 1)>>
    ELSE <<ymd[1] - 1, 12, 31>>

\* the days from ymd, counted n so far, on to the first boundary day
RECURSIVE DaysUntilBoundary(_, _)
DaysUntilBoundary(ymd, n) ==
    IF <<ymd[2], ymd[3]>> \in BoundaryDays THEN n
    ELSE DaysUntilBoundary(NextDay(ymd), n + 1)

\* the days from ymd, counted n so far, back to the last boundary day
RECURSIVE DaysSinceBoundary(_, _)
DaysSinceBoundary(ymd, n) ==
    IF <<ymd[2], ymd[3]>> \in BoundaryDays THEN n
    ELSE DaysSinceBoundary(PrevDay(ymd), n + 1)

\* n is d / 3 rounded: d is a whole number of days, so d / 3 is never
\* halfway between two integers
RoundedThird(d, n) == 3 * n - 1 <= d /\ d <= 3 * n + 1

\* C14: the starting age is max(1, round(d / 3)), d being the days to the
\* first boundary strictly after the birth date (forward) or since the last
\* boundary at or before it (backward); it is at least 1, and a boundary is
\* always found among those of the three years, so 15 is never taken for d.
ThmC14 ==
    pc = "luck" =>
        LET birth_date == <<inp.year, inp.month, inp.day>>
            luck == Val(report.luck_cycles)
            forward == luck.direction = "sunhaeng"
            d == IF forward THEN DaysUntilBoundary(NextDay(birth_date), 1)
                 ELSE DaysSinceBoundary(birth_date, 0)
        IN  /\ luck.start_age >= 1
            /\ IF d <= 1 THEN luck.start_age = 1 ELSE RoundedThird(d, luck.start_age)
            /\ forward => next_terms(birth_date) # {}
            /\ ~forward => prev_terms(birth_date) # {}

\* a backward chart born on a boundary day: d = 0 and the starting age is 1
WitnessC14 ==
    /\ pc = "luck"
    /\ <<inp.month, inp.day>> \in BoundaryDays
    /\ Val(report.luck_cycles).direction = "yeokhaeng"
    /\ Val(report.luck_cycles).start_age = 1

(***************************************************************************)
(* The decade pillars (C15, C16, C17).                                     *)
(***************************************************************************)
\* the place of x in the cycle seq, s places on (s = 1) or back (s = -1)
\* from the place of y
StepsFrom(seq, y, x, s) ==
    LET a == CHOOSE a \in 1..Len(seq) : seq[a] = y
        b == CHOOSE b \in 1..Len(seq) : seq[b] = x
    IN  (b - a - s) % Len(seq) = 0

DecadePillars == Val(report.luck_cycles).pillars

Direction == IF Val(report.luck_cycles).direction = "sunhaeng" THEN 1 ELSE -1

\* C15: nine decade pillars; the k-th (k = 0..8) stands k + 1 steps from the
\* month pillar in the direction, in the cycle of ten stems and in the cycle
\* of twelve branches alike, so the first stands one step from the month
\* pillar and each next one a step further.
ThmC15 ==
    pc = "luck" =>
        /\ Len(DecadePillars) = 9
        /\ \A k \in 0..8 :
              /\ StepsFrom(STEMS, pillars.month.stem,
                           DecadePillars[k + 1].stem, Direction * (k + 1))
              /\ StepsFrom(BRANCHES, pillars.month.branch,
                           DecadePillars[k + 1].branch, Direction * (k + 1))
        /\ \A k \in 1..8 :
              /\ StepsFrom(STEMS, DecadePillars[k].stem,
                           DecadePillars[k + 1].stem, Direction)
              /\ StepsFrom(BRANCHES, DecadePillars[k].branch,
                           DecadePillars[k + 1].branch, Direction)

\* a backward chart whose month pillar is Jia-zi: the decade pillars step
\* back below index 0, to Gui-hai and on to Yi-mao
WitnessC15 ==
    /\ pc = "luck"
    /\ Direction = -1
    /\ pillars.month.stem = "Jia"
    /\ pillars.month.branch = "zi"
    /\ DecadePillars[1].stem = "Gui"
    /\ DecadePillars[1].branch = "hai"
    /\ DecadePillars[9].stem = "Yi"
    /\ DecadePillars[9].branch = "mao"

\* C16: the k-th decade pillar spans the ages start_age + 10k to
\* start_age + 10k + 9 and the years birth year + those ages; each decade
\* begins the year of age after the one before ends.
ThmC16 ==
    pc = "luck" =>
        /\ \A k \in 0..(Len(DecadePillars) - 1) :
              LET lp == DecadePillars[k + 1]
              IN  /\ lp.start_age = Val(report.luck_cycles).start_age + 10 * k
                  /\ lp.end_age = Val(report.luck_cycles).start_age + 10 * k + 9
                  /\ lp.start_year = inp.year + lp.start_age
                  /\ lp.end_year = inp.year + lp.end_age
        /\ \A k \in 1..(Len(DecadePillars) - 1) :
              DecadePillars[k + 1].start_age = DecadePillars[k].end_age + 1
        /\ \A j, k \in 1..Len(DecadePillars) :
              j < k => DecadePillars[j].end_age < DecadePillars[k].start_age

\* a chart of 1990 with starting age 11: the last decade is 91 to 100,
\* 2081 to 2090
WitnessC16 ==
    /\ pc = "luck"
    /\ inp.year = 1990
    /\ Val(report.luck_cycles).start_age = 11
    /\ DecadePillars[9].start_age = 91
    /\ DecadePillars[9].end_age = 100
    /\ DecadePillars[9].start_year = 2081
    /\ DecadePillars[9].end_year = 2090

\* the age calculate_luck_cycles takes for the current decade
ReferenceAge == today[1] - inp.year

Holding(age) ==
    {k \in 1..Len(DecadePillars) :
        DecadePillars[k].start_age <= age /\ age <= DecadePillars[k].end_age}

Timeline == generate_luck_interpretation(report.luck_cycles).timeline

CurrentEntries == {k \in 1..Len(Timeline) : Timeline[k].is_current}

\* C17: current_pillar is there exactly when the reference age lies between
\* start_age and start_age + 10 * 9 - 1; it is then the one decade pillar
\* whose ages hold the reference age, and the one entry of the timeline
\* marked current; otherwise no entry is marked.
ThmC17 ==
    pc = "luck" =>
        LET luck == Val(report.luck_cycles)
        IN  /\ luck.current_pillar # None <=>
                  (luck.start_age <= ReferenceAge
                      /\ ReferenceAge <= luck.start_age + 10 * 9 - 1)
            /\ Cardinality(Holding(ReferenceAge)) <= 1
            /\ luck.current_pillar # None =>
                  \E k \in 1..Len(DecadePillars) :
                      /\ Holding(ReferenceAge) = {k}
                      /\ Val(luck.current_pillar) = DecadePillars[k]
                      /\ CurrentEntries = {k}
            /\ luck.current_pillar = None => CurrentEntries = {}

\* the reference age is the last age of the last decade
WitnessC17 ==
    /\ pc = "luck"
    /\ ReferenceAge = Val(report.luck_cycles).start_age + 89
    /\ Val(report.luck_cycles).current_pillar = Some(DecadePillars[9])
    /\ CurrentEntries = {9}

(***************************************************************************)
(* The scenarios for an unknown hour (C18).                                *)
(***************************************************************************)
\* the hour pillar of the chart of the same input with the hour h
HourPillarAt(h) == calculate_pillars([inp EXCEPT !.hour = Some(h)]).hour

\* C18: without an hour the report has three scenarios, each with an hour
\* pillar, which is the hour pillar the chart would have at the hour of the
\* scenario, with the ten-god and the life stage that chart gives it; with
\* an hour the list of scenarios is empty.
ThmC18 ==
    pc = "done" =>
        IF inp.hour = None
        THEN /\ Len(report.time_scenarios) = 3
             /\ \A k \in 1..3 :
                   LET sc == report.time_scenarios[k]
                       hp == HourPillarAt(sc.hour)
                   IN  /\ sc.pillar # None
                       /\ hp # None
                       /\ Val(sc.pillar).stem = Val(hp).stem
                       /\ Val(sc.pillar).branch = Val(hp).branch
                       /\ sc.ten_god = Val(hp).ten_god
                       /\ sc.twelve_stage = Val(hp).twelve_stage
        ELSE report.time_scenarios = << >>

\* a chart without an hour and its three scenarios, at 5, 12 and 20 o'clock
WitnessC18 ==
    /\ pc = "done"
    /\ inp.hour = None
    /\ Len(report.time_scenarios) = 3
    /\ \A k \in 1..3 : report.time_scenarios[k].pillar # None
    /\ report.time_scenarios[1].hour = 5
    /\ report.time_scenarios[2].hour = 12
    /\ report.time_scenarios[3].hour = 20

(***************************************************************************)
(* Two analyses of one input (C19).                                        *)
(***************************************************************************)
TwoReports == pc = "done" /\ prev # None

Accepted == pc \in {"input", "pillars", "done", "error"}

\* C20 as stated: an accepted input, solar or lunar, has a year, month and
\* day that make a calendar date, and its analysis does not raise.
ClaimC20 ==
    Accepted => (date_ok(inp.year, inp.month, inp.day) /\ pc # "error")

(***************************************************************************)
(* The errors validate_input reports (C21).                                *)
(***************************************************************************)
\* validate_input has returned or raised
Validated == pc # "form"

\* the input is a solar date after today
FutureDate ==
    /\ inp.calendar_type = "solar"
    /\ inp.month \in 1..12
    /\ inp.day \in 1..DaysInMonth(inp.year, inp.month)
    /\ \/ inp.year > today[1]
       \/ inp.year = today[1] /\ inp.month > today[2]
       \/ inp.year = today[1] /\ inp.month = today[2] /\ inp.day > today[3]

HourError == inp.hour # None /\ Val(inp.hour) \notin 0..23

SexError == inp.gender \notin {None, Some("male"), Some("female")}

\* C21 as stated: validate_input never raises; its list is not empty when
\* the year, the month, the day or the hour is out of range, the sex is not
\* male or female, or the solar date is in the future; an hour or sex error
\* is in the list whatever else is.
ClaimC21 ==
    Validated =>
        /\ pc # "crashed"
        /\ (\/ inp.year \notin MinYear..MaxYear
            \/ inp.month \notin 1..12
            \/ inp.day \notin 1..31
            \/ HourError
            \/ SexError
            \/ FutureDate) => errors # << >>
        /\ HourError => \E k \in 1..Len(errors) : errors[k] = "hour"
        /\ SexError => \E k \in 1..Len(errors) : errors[k] = "gender"

(***************************************************************************)
(* Interactions of stems (C22).                                            *)
(***************************************************************************)
\* the pillars of the chart by position, 1 (year) to 4 (hour), the present ones
PresentPositions == IF pillars.hour # None THEN 1..4 ELSE 1..3

PillarAt(k) ==
    CASE k = 1 -> pillars.year
      [] k = 2 -> pillars.month
      [] k = 3 -> pillars.day
      [] k = 4 -> Val(pillars.hour)

StemPositionName(k) == At(<<"nyeongan", "wolgan", "ilgan", "sigan">>, k - 1)

\* the two stems are a pair of the table, in either order
FormPair(table, s1, s2) ==
    \E n \in 1..Len(table) : {table[n][1], table[n][2]} = {s1, s2}

\* the interactions of a type recorded for the positions named
Recorded(type, names) ==
    {n \in 1..Len(report.interactions) :
        /\ report.interactions[n].type = type
        /\ report.interactions[n].positions = names}

\* the interactions of a type that are recorded
RecordedOfType(type) ==
    {n \in 1..Len(report.interactions) : report.interactions[n].type = type}

StemRule(type, table) ==
    /\ \A k1, k2 \in PresentPositions :
           k1 < k2 =>
               Cardinality(Recorded(type, <<StemPositionName(k1), StemPositionName(k2)>>))
                   = IF FormPair(table, PillarAt(k1).stem, PillarAt(k2).stem)
                        THEN 1 ELSE 0
    /\ \A n \in RecordedOfType(type) :
           \E k1, k2 \in PresentPositions :
               /\ k1 < k2
               /\ report.interactions[n].positions
                      = <<StemPositionName(k1), StemPositionName(k2)>>
               /\ report.interactions[n].elements
                      = <<PillarAt(k1).stem, PillarAt(k2).stem>>

ChartBranches == {PillarAt(k).branch : k \in PresentPositions}

\* the interactions of a type recorded under one of the names
RecordedNamed(type, names) ==
    {n \in RecordedOfType(type) : report.interactions[n].name \in names}

TriadRule(e) ==
    LET present == e[1] \cap ChartBranches
        complete == RecordedNamed("jijisamhap", {e[3] \o " (complete)"})
        partial == RecordedNamed("jijisamhap", {e[3] \o " (half)"})
    IN  /\ \A n \in complete :
               /\ Cardinality(present) = 3
               /\ report.interactions[n].severity = 3
        /\ Cardinality(present) = 2 =>
               /\ partial # {}
               /\ \A n \in partial : report.interactions[n].severity = 1
        /\ Cardinality(complete \cup partial) <= 1

\* C23 as stated: a triad is recorded as complete (severity 3) only if all
\* three branches of its set are in the chart, as partial (severity 1) when
\* two of them are and the third is not, and at most once for each set.
ClaimC23 ==
    pc = "relations" =>
        \A k \in 1..Len(BRANCH_THREE_COMBINATIONS) :
            TriadRule(BRANCH_THREE_COMBINATIONS[k])

(***************************************************************************)
(* Directional sets of branches (C24).                                     *)
(***************************************************************************)
\* C24 as stated: a directional set is recorded if and only if all three
\* branches of the set are in the chart; two of them, one at two positions,
\* record nothing.
ClaimC24 ==
    pc = "relations" =>
        \A k \in 1..Len(BRANCH_DIRECTIONAL) :
            LET e == BRANCH_DIRECTIONAL[k]
            IN  RecordedNamed("jijibanghap", {e[3]}) # {}
                    <=> e[1] \subseteq ChartBranches

(***************************************************************************)
(* Penalties of branches (C25).                                            *)
(***************************************************************************)
\* the branches that take part in a recorded interaction
Participants(n) ==
    {report.interactions[n].elements[k] :
        k \in 1..Len(report.interactions[n].elements)}

\* C25 as stated: a penalty is recorded for a set only when two members of
\* the set or more are in the chart, one member at two positions not being
\* enough; a penalty whose participants are one and the same branch is
\* recorded only when that branch is one of the self-penalty branches.
ClaimC25 ==
    pc = "relations" =>
        /\ \A k \in 1..Len(BRANCH_PENALTIES) :
               LET e == BRANCH_PENALTIES[k]
               IN  RecordedNamed("jijihyeong", {e[2]}) # {}
                       => Cardinality(e[1] \cap ChartBranches) >= 2
        /\ \A n \in RecordedOfType("jijihyeong") :
               Cardinality(Participants(n)) = 1
                   => Participants(n) \subseteq BRANCH_SELF_PENALTY

(***************************************************************************)
(* Ten-god statistics (C26).                                               *)
(***************************************************************************)
\* the primary hidden stem of a branch
PrimaryHidden(p) ==
    p.hidden_stems[CHOOSE n \in 1..Len(p.hidden_stems) :
                       p.hidden_stems[n].role = "bongi"].stem

\* the ten gods of the stems counted: the stem of every pillar but the day
\* pillar, and the primary hidden stem of the branch of every pillar
CountedGods ==
    LET ds == pillars.day.stem
        hour == IF pillars.hour # None
                   THEN <<Val(pillars.hour).stem, PrimaryHidden(Val(pillars.hour))>>
                   ELSE << >>
        stems == <<pillars.year.stem, PrimaryHidden(pillars.year),
                   pillars.month.stem, PrimaryHidden(pillars.month),
                   PrimaryHidden(pillars.day)>> \o hour
    IN  [k \in 1..Len(stems) |-> get_ten_god(ds, stems[k])]

\* the number of ten gods of a list that are in a set
NumberIn(gods, group) == Cardinality({k \in 1..Len(gods) : gods[k] \in group})

\* C26: the dominant group has the largest total count of the five groups
\* and no group before it in the order of the table has as large a total;
\* the counts are those of the non-day stems and of the primary hidden stems
\* of the branches, and total twice the number of pillars less one.
ThmC26 ==
    pc = "relations" =>
        LET gods == CountedGods
            stats == report.ten_god_stats
            total == [k \in 1..Len(TEN_GOD_GROUPS) |->
                         NumberIn(gods, TEN_GOD_GROUPS[k][2])]
            d == CHOOSE k \in 1..Len(TEN_GOD_GROUPS) :
                     TEN_GOD_GROUPS[k][1] = stats.dominant_group
        IN  /\ \A k \in 1..Len(total) : total[k] <= total[d]
            /\ \A k \in 1..(d - 1) : total[k] < total[d]
            /\ \A g \in DOMAIN stats.counts : stats.counts[g] = NumberIn(gods, {g})
            /\ \A k \in 1..Len(gods) : gods[k] \in DOMAIN stats.counts
            /\ Len(gods) = 2 * Cardinality(PresentPositions) - 1

\* a chart with an hour in which two groups tie for the largest total and
\* the first of them is not the first of the table
WitnessC26 ==
    /\ pc = "relations"
    /\ pillars.hour # None
    /\ LET gods == CountedGods
           d == CHOOSE k \in 1..Len(TEN_GOD_GROUPS) :
                    TEN_GOD_GROUPS[k][1] = report.ten_god_stats.dominant_group
       IN  /\ d > 1
           /\ \E k \in (d + 1)..Len(TEN_GOD_GROUPS) :
                  NumberIn(gods, TEN_GOD_GROUPS[k][2])
                      = NumberIn(gods, TEN_GOD_GROUPS[d][2])
           /\ Len(gods) = 7

(***************************************************************************)
(* The month command and the hidden bonus of the strength score (C27).     *)
(***************************************************************************)
\* element a generates element b, in the cycle wood, fire, earth, metal, water
Generates(a, b) == (IndexOf(ELEMENTS, a) + 1) % 5 = IndexOf(ELEMENTS, b)

\* the factors of a kind and of a number of points that were recorded
FactorsOf(factor, points) ==
    {n \in 1..Len(report.strength.factors) :
        /\ report.strength.factors[n].factor = factor
        /\ report.strength.factors[n].points \in points}

\* the hidden stems of a role, of the branches of the chart, that have the
\* element given
HiddenOf(role, el) ==
    {<<k, n>> \in PresentPositions \X (1..3) :
        /\ n <= Len(PillarAt(k).hidden_stems)
        /\ PillarAt(k).hidden_stems[n].role = role
        /\ STEM_INFO(PillarAt(k).hidden_stems[n].stem).element = el}

\* C27: one month-command factor is recorded on every chart, with the 'same'
\* bonus exactly when the primary hidden stem of the month branch has the
\* element E of the day stem, the 'generate' bonus exactly when its element
\* generates E, and zero otherwise; the hidden bonus is recorded once for
\* each hidden stem of a present branch that is not primary and has element E.
ThmC27 ==
    pc = "done" =>
        LET E == STEM_INFO(pillars.day.stem).element
            m == STEM_INFO(PrimaryHidden(pillars.month)).element
            expected == IF m = E THEN STRENGTH_RULES.deukryeong.same
                        ELSE IF Generates(m, E) THEN STRENGTH_RULES.deukryeong.generate
                        ELSE 0
        IN  /\ Cardinality(FactorsOf("deukryeong", 0..100)) = 1
            /\ Cardinality(FactorsOf("deukryeong", {expected})) = 1
            /\ Cardinality(FactorsOf("jijanggan", {STRENGTH_RULES.hidden_middle}))
                   = Cardinality(HiddenOf("junggi", E))
            /\ Cardinality(FactorsOf("jijanggan", {STRENGTH_RULES.hidden_residual}))
                   = Cardinality(HiddenOf("yeogi", E))
            /\ Cardinality(FactorsOf("jijanggan", 0..100))
                   = Cardinality(HiddenOf("junggi", E)) + Cardinality(HiddenOf("yeogi", E))

\* a chart whose month command is the 'generate' bonus, with a primary hidden
\* stem of element E outside the month branch, a secondary one of element E
\* and a residual one of another element
WitnessC27 ==
    /\ pc = "done"
    /\ LET E == STEM_INFO(pillars.day.stem).element
       IN  /\ FactorsOf("deukryeong", {STRENGTH_RULES.deukryeong.generate}) # {}
           /\ \E kn \in HiddenOf("bongi", E) : kn[1] # 2
           /\ HiddenOf("junggi", E) # {}
           /\ \E el \in {ELEMENTS[k] : k \in 1..Len(ELEMENTS)} \ {E} :
                  HiddenOf("yeogi", el) # {}

(***************************************************************************)
(* The branches of the scenarios (C28).                                    *)
(***************************************************************************)
\* C28 as stated: the hour pillar of every scenario has the branch its label
\* names: yin at 5 o'clock, wu at 12 o'clock, xu at 20 o'clock.
ClaimC28 ==
    (pc = "done" /\ inp.hour = None) =>
        \A k \in 1..Len(report.time_scenarios) :
            LET sc == report.time_scenarios[k]
            IN  /\ sc.pillar # None
                /\ Val(sc.pillar).branch = sc.label[1]
                /\ sc.hour = 5 => Val(sc.pillar).branch = "yin"
                /\ sc.hour = 12 => Val(sc.pillar).branch = "wu"
                /\ sc.hour = 20 => Val(sc.pillar).branch = "xu"

(***************************************************************************)
(* The day pillars of consecutive dates (C29).                             *)
(***************************************************************************)
\* the date after the date of the input
DayAfter == NextDay(<<inp.year, inp.month, inp.day>>)

\* C29: the day pillar of the date after a date is one step after the day
\* pillar of the date: the next stem and the next branch, the first following
\* the last.
ThmC29 ==
    pc = "pillars" =>
        LET later == calculate_day_pillar(DayAfter[1], DayAfter[2], DayAfter[3])
        IN  /\ IndexOf(STEMS, later.stem)
                   = (IndexOf(STEMS, pillars.day.stem) + 1) % 10
            /\ IndexOf(BRANCHES, later.branch)
                   = (IndexOf(BRANCHES, pillars.day.branch) + 1) % 12

\* 29 February 2000 and 1 March after it
WitnessC29 ==
    /\ pc = "pillars"
    /\ <<inp.year, inp.month, inp.day>> = <<2000, 2, 29>>
    /\ DayAfter = <<2000, 3, 1>>
    /\ calculate_day_pillar(2000, 3, 1).stem
           = At(STEMS, (IndexOf(STEMS, pillars.day.stem) + 1) % 10)
    /\ calculate_day_pillar(2000, 3, 1).branch
           = At(BRANCHES, (IndexOf(BRANCHES, pillars.day.branch) + 1) % 12)

(***************************************************************************)
(* The parity of the stem and the branch of a pillar (C30).                *)
(***************************************************************************)
\* the stem and the branch have indices of the same parity
SameParity(p) ==
    IndexOf(STEMS, p.stem) % 2 = IndexOf(BRANCHES, p.branch) % 2

\* C30: the stem index and the branch index of every pillar produced have
\* the same parity: the year, month, day and hour pillars of the chart, the
\* hour pillar of every scenario and every decade pillar of the luck cycles.
ThmC30 ==
    pc = "done" =>
        /\ \A k \in PresentPositions : SameParity(PillarAt(k))
        /\ \A k \in 1..Len(report.time_scenarios) :
               /\ report.time_scenarios[k].pillar # None
               /\ SameParity(Val(report.time_scenarios[k].pillar))
        /\ report.luck_cycles # None =>
               \A k \in 1..Len(Val(report.luck_cycles).pillars) :
                   SameParity(Val(report.luck_cycles).pillars[k])

\* a report with three scenarios and nine decade pillars stepping backward
\* from a month pillar of odd indices, past the start of both cycles
WitnessC30 ==
    /\ pc = "done"
    /\ Len(report.time_scenarios) = 3
    /\ report.luck_cycles # None
    /\ Len(Val(report.luck_cycles).pillars) = 9
    /\ Val(report.luck_cycles).direction = "yeokhaeng"
    /\ IndexOf(STEMS, pillars.month.stem) % 2 = 1
    /\ IndexOf(BRANCHES, pillars.month.branch) < 9
    /\ \A k \in 1..9 : SameParity(Val(report.luck_cycles).pillars[k])
    /\ \A k \in 1..3 : SameParity(Val(report.time_scenarios[k].pillar))

====
